---------------------------- MODULE Spec2Model ----------------------------
(***************************************************************************)
(* Archadium: the turn-based battle engine (combat/battle.py), the         *)
(* progress state (engine/state.py), the player wrapper                    *)
(* (entities/player.py), the scenes (app.py) and the scene loop            *)
(* (engine/game_loop.py), as one state machine.                            *)
(*                                                                         *)
(* The content registries (rooms, items, enemies) are loaded from YAML     *)
(* files that are data, not code; the world below is one small content     *)
(* set run through the loaders' defaults.                                  *)
(***************************************************************************)
EXTENDS Integers, Sequences, FiniteSets, TLC

VARIABLES
    state,            \* ctx.state: the GameState record
    save_file,        \* saves/save1.json: <<>> when absent, else <<dict>>
    room_items,       \* Room.items of every room of the world map
    current,          \* GameLoop._current
    running,          \* FALSE once GameLoop.run has left its loop
    pending_enemy_id, \* ctx.pending_enemy_id
    looked,           \* ExploreScene._looked
    eof,              \* the input stream has ended: every read raises EOFError
    bpc,              \* where Battle.run stands
    enemy,            \* Battle.enemy: the spawned Enemy instance
    defending,        \* Battle.defending
    turn_count,       \* Battle.turn_count
    result,           \* the BattleResult of the last Battle.run that returned
    round,            \* observer: what happened in the current battle round
    last_damage,      \* observer: the last damage application
    entered,          \* observer: the scene whose enter() the last loop step ran
    templates,        \* EnemyRegistry._enemies: the enemy templates
    invalid_choices,  \* observer: "Invalid choice." lines printed in this scene, mod 2
    handlers,         \* EventBus._handlers: event name -> list of handlers
    invoked,          \* observer: the handlers the last publish() called, in order
    published         \* observer: the events the current battle has published

vars == <<state, save_file, room_items, current, running, pending_enemy_id,
          looked, eof, bpc, enemy, defending, turn_count, result,
          round, last_damage, entered, templates,
          invalid_choices, handlers, invoked, published>>

NoneVal == "None"

Max(a, b) == IF a >= b THEN a ELSE b
Min(a, b) == IF a <= b THEN a ELSE b

RECURSIVE SeqContains(_, _)
SeqContains(s, x) ==
    IF s = <<>> THEN FALSE
    ELSE IF Head(s) = x THEN TRUE ELSE SeqContains(Tail(s), x)

\* list.remove(x): drops the first occurrence of x
RECURSIVE SeqRemoveFirst(_, _)
SeqRemoveFirst(s, x) ==
    IF s = <<>> THEN <<>>
    ELSE IF Head(s) = x THEN Tail(s)
    ELSE <<Head(s)>> \o SeqRemoveFirst(Tail(s), x)

RECURSIVE SeqCount(_, _)
SeqCount(s, x) ==
    IF s = <<>> THEN 0
    ELSE (IF Head(s) = x THEN 1 ELSE 0) + SeqCount(Tail(s), x)

(***************************************************************************)
(* Content: items, enemies, rooms                                          *)
(***************************************************************************)

\* Item.from_dict over the item data; a field left out takes its default
ItemDefs ==
    [ potion |-> [item_id |-> "potion", name |-> "health potion",
                  item_type |-> "consumable", attack_bonus |-> 0,
                  defense_bonus |-> 0, heal_amount |-> 20],
      sword  |-> [item_id |-> "sword", name |-> "iron sword",
                  item_type |-> "weapon", attack_bonus |-> 3,
                  defense_bonus |-> 0, heal_amount |-> 0],
      armor  |-> [item_id |-> "armor", name |-> "leather armor",
                  item_type |-> "armor", attack_bonus |-> 0,
                  defense_bonus |-> 2, heal_amount |-> 0] ]

ItemIds == DOMAIN ItemDefs

\* ItemRegistry.get
HasItemDef(item_id) == item_id \in ItemIds

\* `target in item.name.lower()`: the substrings of the item names a
\* player types
NameContains(item_id, target) ==
    CASE target = "sword"  -> item_id = "sword"
      [] target = "potion" -> item_id = "potion"
      [] target = "armor"  -> item_id = "armor"
      [] target = "ea"     -> item_id \in {"potion", "armor"}
      [] OTHER -> FALSE

\* Enemy.from_dict over the enemy data
EnemyDefs ==
    [ goblin |-> [enemy_id |-> "goblin", hp |-> 16, max_hp |-> 16,
                  attack |-> 65, defense |-> 2,
                  xp_reward |-> 110, gold_reward |-> 5],
      troll  |-> [enemy_id |-> "troll", hp |-> 2, max_hp |-> 2,
                  attack |-> 85, defense |-> 12,
                  xp_reward |-> 50, gold_reward |-> 7] ]

EnemyIds == DOMAIN EnemyDefs

NoEnemy == [enemy_id |-> NoneVal, hp |-> 0, max_hp |-> 0, attack |-> 0,
            defense |-> 0, xp_reward |-> 0, gold_reward |-> 0]

\* Enemy.copy: a fresh instance at full hp
EnemyCopy(t) == [t EXCEPT !.hp = t.max_hp]

\* a registry that hands out its template itself, so that the battle's
\* take_damage writes the template (C29 fails on it)
RegistryAliased(registry, e) == [registry EXCEPT ![e.enemy_id] = e]

\* EnemyRegistry.get returns template.copy(): Enemy.take_damage on the
\* spawned instance e writes that instance, and the registry stays as it is
RegistryAfterHit(registry, e) == registry

\* EnemyRegistry.get: a copy of the template (None is handled by the caller)
EnemyRegistryGet(enemy_id) == EnemyCopy(templates[enemy_id])

\* Room.from_dict over the room data.  "abyss" is an exit target that no
\* room file defines; "ghost" is an enemy id that no enemy file defines.
RoomDefs ==
    [ village_square |->
        [exits |-> << [direction |-> "north", target_room |-> "forest",
                       locked |-> FALSE, required_flag |-> NoneVal,
                       lock_message |-> "The way is blocked."],
                      [direction |-> "down", target_room |-> "abyss",
                       locked |-> TRUE, required_flag |-> "defeated_troll",
                       lock_message |-> "The abyss is sealed."],
                      [direction |-> "east", target_room |-> "forest",
                       locked |-> TRUE, required_flag |-> NoneVal,
                       lock_message |-> "The way is blocked."] >>,
         items |-> <<"potion", "sword">>,
         enemies |-> <<>>,
         on_enter_flag |-> NoneVal],
      forest |->
        [exits |-> << [direction |-> "south", target_room |-> "village_square",
                       locked |-> FALSE, required_flag |-> NoneVal,
                       lock_message |-> "The way is blocked."],
                      [direction |-> "west", target_room |-> "village_square",
                       locked |-> FALSE, required_flag |-> "defeated_troll",
                       lock_message |-> "The troll bars the way."] >>,
         items |-> <<"armor">>,
         enemies |-> <<"goblin", "troll", "ghost">>,
         on_enter_flag |-> "seen_forest"] ]

RoomIds == DOMAIN RoomDefs

\* WorldMap.get_room(...) is not None
HasRoom(room_id) == room_id \in RoomIds

\* an is_accessible that lets every exit pass (C22 fails on it)
IsAccessibleOpen(ex, flags) == TRUE

\* an is_accessible that no flag opens (C23 fails on it)
IsAccessibleUnlockedOnly(ex, flags) == ~ex.locked

\* Exit.is_accessible
IsAccessible(ex, flags) ==
    IF ~ex.locked THEN TRUE
    ELSE IF ex.required_flag # NoneVal
            /\ (IF ex.required_flag \in DOMAIN flags
                THEN flags[ex.required_flag] ELSE FALSE)
         THEN TRUE
         ELSE FALSE

\* Room.get_exit: the first exit in that direction, <<>> for None
RECURSIVE FirstExit(_, _)
FirstExit(exits, direction) ==
    IF exits = <<>> THEN <<>>
    ELSE IF Head(exits).direction = direction THEN <<Head(exits)>>
    ELSE FirstExit(Tail(exits), direction)

GetExit(room_id, direction) == FirstExit(RoomDefs[room_id].exits, direction)

(***************************************************************************)
(* GameState (engine/state.py)                                             *)
(***************************************************************************)

\* GameState(player_name=name): the dataclass defaults
NewGameState(name) ==
    [ player_name |-> name, current_room |-> "village_square",
      hp |-> 100, max_hp |-> 100, attack |-> 10, defense |-> 5,
      level |-> 1, xp |-> 0, xp_to_level |-> 100, gold |-> 0,
      inventory |-> <<>>, equipped_weapon |-> NoneVal,
      equipped_armor |-> NoneVal,
      flags |-> [f \in {} |-> TRUE], defeated_enemies |-> <<>> ]

\* dict.__setitem__ on GameState.flags
DictSet(d, k, v) == [x \in DOMAIN d \cup {k} |-> IF x = k THEN v ELSE d[x]]

\* GameState.set_flag(flag, value)
SetFlagValue(s, flag, value) == [s EXCEPT !.flags = DictSet(s.flags, flag, value)]

\* a set_flag that flips the flag it is given (C32 fails on it)
SetFlagFlips(s, flag) ==
    SetFlagValue(s, flag, ~(flag \in DOMAIN s.flags /\ s.flags[flag]))

\* GameState.set_flag(flag): value defaults to True
SetFlag(s, flag) == SetFlagValue(s, flag, TRUE)

\* GameState.has_flag
HasFlag(s, flag) == IF flag \in DOMAIN s.flags THEN s.flags[flag] ELSE FALSE

\* GameState.is_alive
IsAlive(s) == s.hp > 0

\* GameState.add_xp: the value returned
AddXpLevels(s, amount) == s.xp + amount >= s.xp_to_level

\* an add_xp that doubles the threshold (C11 fails on it)
AddXpDoubles(s, amount) ==
    IF s.xp + amount >= s.xp_to_level
    THEN [s EXCEPT !.xp = s.xp + amount - s.xp_to_level,
                   !.level = s.level + 1,
                   !.xp_to_level = s.xp_to_level * 2,
                   !.max_hp = s.max_hp + 10,
                   !.hp = s.max_hp + 10,
                   !.attack = s.attack + 2,
                   !.defense = s.defense + 1]
    ELSE [s EXCEPT !.xp = s.xp + amount]

\* GameState.add_xp: the state left behind
AddXp(s, amount) ==
    IF AddXpLevels(s, amount)
    THEN [s EXCEPT !.xp = s.xp + amount - s.xp_to_level,
                   !.level = s.level + 1,
                   !.xp_to_level = (s.xp_to_level * 3) \div 2,
                   !.max_hp = s.max_hp + 10,
                   !.hp = s.max_hp + 10,
                   !.attack = s.attack + 2,
                   !.defense = s.defense + 1]
    ELSE [s EXCEPT !.xp = s.xp + amount]

\* a heal without the cap at max_hp (C13 fails on it)
HealNoCap(s, amount) == [s EXCEPT !.hp = s.hp + amount]

\* GameState.heal: the state left behind
Heal(s, amount) == [s EXCEPT !.hp = Min(s.hp + amount, s.max_hp)]

\* GameState.heal: the value returned
HealReturn(s, amount) == Heal(s, amount).hp - s.hp

\* a take_damage without the floor of 1 (C5 fails on it)
TakeDamageNoFloor(s, amount) == amount - s.defense

\* GameState.take_damage: the value returned
TakeDamageActual(s, amount) == Max(1, amount - s.defense)

\* GameState.take_damage: the state left behind
TakeDamage(s, amount) ==
    [s EXCEPT !.hp = Max(0, s.hp - TakeDamageActual(s, amount))]

\* a to_dict that leaves the armor slot out (C26 fails on it)
ToDictNoArmor(s) ==
    [ player_name |-> s.player_name, current_room |-> s.current_room,
      hp |-> s.hp, max_hp |-> s.max_hp, attack |-> s.attack,
      defense |-> s.defense, level |-> s.level, xp |-> s.xp,
      xp_to_level |-> s.xp_to_level, gold |-> s.gold,
      inventory |-> s.inventory, equipped_weapon |-> s.equipped_weapon,
      flags |-> s.flags, defeated_enemies |-> s.defeated_enemies ]

\* GameState.to_dict
ToDict(s) ==
    [ player_name |-> s.player_name, current_room |-> s.current_room,
      hp |-> s.hp, max_hp |-> s.max_hp, attack |-> s.attack,
      defense |-> s.defense, level |-> s.level, xp |-> s.xp,
      xp_to_level |-> s.xp_to_level, gold |-> s.gold,
      inventory |-> s.inventory, equipped_weapon |-> s.equipped_weapon,
      equipped_armor |-> s.equipped_armor, flags |-> s.flags,
      defeated_enemies |-> s.defeated_enemies ]

\* the names of the dataclass fields
DataclassFields == DOMAIN NewGameState("Hero")

\* a from_dict that keeps every key of the record (C27 fails on it)
FromDictAllKeys(d) ==
    [k \in DOMAIN d \cup DOMAIN NewGameState("Hero") |->
        IF k \in DOMAIN d THEN d[k] ELSE NewGameState("Hero")[k]]

\* GameState.from_dict: the known keys of the record over the defaults
FromDict(d) ==
    [k \in DataclassFields |->
        IF k \in DOMAIN d THEN d[k] ELSE NewGameState("Hero")[k]]

\* the Python type of every dataclass field, as json.dumps sees it
FieldKind ==
    [ player_name |-> "str", current_room |-> "str",
      hp |-> "int", max_hp |-> "int", attack |-> "int", defense |-> "int",
      level |-> "int", xp |-> "int", xp_to_level |-> "int", gold |-> "int",
      inventory |-> "list", equipped_weapon |-> "optional",
      equipped_armor |-> "optional", flags |-> "dict",
      defeated_enemies |-> "list" ]

\* json.dumps of one value: None becomes null, a list of str an array of
\* strings, a dict of bool an object of true and false
JsonDumpsValue(kind, v) ==
    IF kind = "optional" /\ v = NoneVal THEN [json |-> "null"]
    ELSE IF kind \in {"str", "optional"} THEN [json |-> "string", v |-> v]
    ELSE IF kind = "int" THEN [json |-> "number", v |-> v]
    ELSE IF kind = "list"
    THEN [json |-> "array",
          v |-> [i \in 1 .. Len(v) |-> [json |-> "string", v |-> v[i]]]]
    ELSE [json |-> "object",
          v |-> [k \in DOMAIN v |->
                    [json |-> IF v[k] THEN "true" ELSE "false"]]]

\* json.loads of one value
JsonLoadsValue(j) ==
    IF j.json = "null" THEN NoneVal
    ELSE IF j.json \in {"string", "number"} THEN j.v
    ELSE IF j.json = "array" THEN [i \in 1 .. Len(j.v) |-> j.v[i].v]
    ELSE [k \in DOMAIN j.v |-> j.v[k].json = "true"]

\* json.dumps of the dict that to_dict returns
JsonDumps(d) == [k \in DOMAIN d |-> JsonDumpsValue(FieldKind[k], d[k])]

\* json.loads of a file holding one object
JsonLoads(j) == [k \in DOMAIN j |-> JsonLoadsValue(j[k])]

\* GameState.save: the file written
SaveFile(s) == <<JsonDumps(ToDict(s))>>

\* GameState.load, for a file that exists
LoadFile(f) == FromDict(JsonLoads(f[1]))

\* GameState.load: <<>> for None when the file is absent
Load(f) == IF f = <<>> THEN <<>> ELSE <<LoadFile(f)>>

(***************************************************************************)
(* EventBus (engine/events.py)                                             *)
(***************************************************************************)

\* the event names Battle publishes
EventNames ==
    {"battle_start", "player_attack", "enemy_attack",
     "battle_flee", "battle_victory", "battle_defeat"}

\* EventBus.__init__: a defaultdict(list)
NoHandlers == [e \in EventNames |-> <<>>]

\* handlers a caller may register: two that only record the call, and one
\* that unsubscribes itself from the event when it is called
HandlerIds == {"h1", "h2", "once"}

\* EventBus.subscribe
Subscribe(hs, event, handler) == [hs EXCEPT ![event] = Append(@, handler)]

\* EventBus.unsubscribe: list.remove, ValueError swallowed
Unsubscribe(hs, event, handler) ==
    [hs EXCEPT ![event] = SeqRemoveFirst(@, handler)]

\* the bus after publish() has called one handler
HandlerCall(hs, event, handler) ==
    IF handler = "once" THEN Unsubscribe(hs, event, handler) ELSE hs

\* EventBus.publish: the for loop over the live list self._handlers[event],
\* from index i on; the list iterator moves on by index whatever the
\* handlers do to the list
RECURSIVE Dispatch(_, _, _, _)
Dispatch(hs, event, i, log) ==
    IF i > Len(hs[event]) THEN [handlers |-> hs, invoked |-> log]
    ELSE Dispatch(HandlerCall(hs, event, hs[event][i]), event, i + 1,
                  Append(log, hs[event][i]))

\* the events that end a battle
EndEvents == {"battle_flee", "battle_victory", "battle_defeat"}

\* no event published yet
NoEvents == [starts |-> 0, ends |-> <<>>, early |-> FALSE, late |-> FALSE]

\* the record of a battle's events after one more publish: how many
\* battle_start, which end events in order, whether an attack event came
\* before the first battle_start, whether any event came after an end event
Published(p, event) ==
    LET q == [p EXCEPT !.late = @ \/ p.ends # <<>>]
    IN IF event = "battle_start" THEN [q EXCEPT !.starts = @ + 1]
       ELSE IF event \in EndEvents THEN [q EXCEPT !.ends = Append(@, event)]
       ELSE [q EXCEPT !.early = @ \/ p.starts = 0]

(***************************************************************************)
(* Enemy (combat/enemies.py)                                               *)
(***************************************************************************)

\* Enemy.is_alive
EnemyIsAlive(e) == e.hp > 0

\* Enemy.take_damage: the value returned
EnemyDamageActual(e, amount) == Max(1, amount - e.defense)

\* Enemy.take_damage: the instance left behind
EnemyTakeDamage(e, amount) ==
    [e EXCEPT !.hp = Max(0, e.hp - EnemyDamageActual(e, amount))]

(***************************************************************************)
(* Player (entities/player.py)                                             *)
(***************************************************************************)

\* an attack that forgets the weapon (C3 fails on it)
EffectiveAttackBase(s) == s.attack

\* Player.effective_attack
EffectiveAttack(s) ==
    LET bonus == IF s.equipped_weapon # NoneVal
                    /\ HasItemDef(s.equipped_weapon)
                 THEN ItemDefs[s.equipped_weapon].attack_bonus
                 ELSE 0
    IN s.attack + bonus

\* Player.effective_defense
EffectiveDefense(s) ==
    LET bonus == IF s.equipped_armor # NoneVal
                    /\ HasItemDef(s.equipped_armor)
                 THEN ItemDefs[s.equipped_armor].defense_bonus
                 ELSE 0
    IN s.defense + bonus

\* Player.add_item
AddItem(s, item_id) ==
    IF HasItemDef(item_id)
    THEN [s EXCEPT !.inventory = Append(s.inventory, item_id)]
    ELSE s

\* Player.remove_item
RemoveItem(s, item_id) ==
    IF SeqContains(s.inventory, item_id)
    THEN [s EXCEPT !.inventory = SeqRemoveFirst(s.inventory, item_id)]
    ELSE s

\* an equip that puts any owned item in the weapon slot (C24 fails on it)
EquipAnything(s, item_id) ==
    IF ~SeqContains(s.inventory, item_id) THEN s
    ELSE [s EXCEPT !.equipped_weapon = item_id]

\* Player.equip: the message returned, NoneVal on success
EquipError(s, item_id) ==
    IF ~SeqContains(s.inventory, item_id) THEN "You don't have that item."
    ELSE IF ~HasItemDef(item_id) THEN "Unknown item."
    ELSE IF ItemDefs[item_id].item_type \in {"weapon", "armor"} THEN NoneVal
    ELSE "can't be equipped."

\* Player.equip: the state left behind
Equip(s, item_id) ==
    IF ~SeqContains(s.inventory, item_id) THEN s
    ELSE IF ~HasItemDef(item_id) THEN s
    ELSE IF ItemDefs[item_id].item_type = "weapon"
         THEN [s EXCEPT !.equipped_weapon = item_id]
    ELSE IF ItemDefs[item_id].item_type = "armor"
         THEN [s EXCEPT !.equipped_armor = item_id]
    ELSE s

\* Player.unequip: the message returned, NoneVal on success
UnequipError(s, slot) ==
    IF slot = "weapon"
    THEN (IF s.equipped_weapon = NoneVal
          THEN "Nothing equipped in weapon slot." ELSE NoneVal)
    ELSE IF slot = "armor"
    THEN (IF s.equipped_armor = NoneVal
          THEN "Nothing equipped in armor slot." ELSE NoneVal)
    ELSE "Unknown slot. Use 'weapon' or 'armor'."

\* Player.unequip: the state left behind
Unequip(s, slot) ==
    IF slot = "weapon" THEN [s EXCEPT !.equipped_weapon = NoneVal]
    ELSE IF slot = "armor" THEN [s EXCEPT !.equipped_armor = NoneVal]
    ELSE s

\* a use_item that heals and keeps the item (C25 fails on it)
UseItemKeeps(s, item_id) ==
    IF ~(SeqContains(s.inventory, item_id) /\ HasItemDef(item_id)
         /\ ItemDefs[item_id].item_type = "consumable")
    THEN s
    ELSE [s EXCEPT !.hp = Min(s.hp + ItemDefs[item_id].heal_amount, s.max_hp)]

\* Player.use_item: whether the item is consumed
UseItemOk(s, item_id) ==
    /\ SeqContains(s.inventory, item_id)
    /\ HasItemDef(item_id)
    /\ ItemDefs[item_id].item_type = "consumable"

\* Player.use_item: the state left behind
UseItem(s, item_id) ==
    IF ~UseItemOk(s, item_id) THEN s
    ELSE LET t == [s EXCEPT !.inventory = SeqRemoveFirst(s.inventory, item_id)]
         IN IF ItemDefs[item_id].heal_amount > 0
            THEN Heal(t, ItemDefs[item_id].heal_amount)
            ELSE t

\* Player.use_item: the number of the message "... and recover N HP!"
UseItemHealed(s, item_id) == HealReturn(s, ItemDefs[item_id].heal_amount)

\* Player.use_item: the message returned
UseItemMsg(s, item_id) ==
    IF ~SeqContains(s.inventory, item_id) THEN "You don't have that item."
    ELSE IF ~HasItemDef(item_id) THEN "Unknown item."
    ELSE IF ItemDefs[item_id].item_type # "consumable"
         THEN "can't be used that way."
    ELSE IF ItemDefs[item_id].heal_amount > 0 THEN "You use and recover HP!"
    ELSE "You use."

(***************************************************************************)
(* Inputs the player types                                                 *)
(***************************************************************************)

\* names typed at "Enter your name:"; the empty line and end-of-input
\* both give "Hero"
PlayerNames == {"Hero"}

\* argument texts typed after take / drop / equip / use ("" is no argument)
Targets == {"sword", "potion", "armor", "ea", "xyz", ""}

\* directions typed ("" is `go` with no argument)
MoveInputs == {"north", "south", "down", "east", "west", ""}

\* argument texts typed after unequip
SlotInputs == {"weapon", "armor", ""}

\* verbs that only display
DisplayVerbs == {"examine", "inventory", "stats", "help", "talk"}

(***************************************************************************)
(* Scene loop (engine/game_loop.py) and scenes (app.py)                    *)
(***************************************************************************)

\* ExploreScene._do_look: the only state it writes is the on-enter flag
DoLook(s) ==
    IF ~HasRoom(s.current_room) THEN s
    ELSE IF RoomDefs[s.current_room].on_enter_flag # NoneVal
         THEN SetFlag(s, RoomDefs[s.current_room].on_enter_flag)
         ELSE s

\* ExploreScene._looked after enter() or after a move: reset, then set by
\* _do_look unless it returned early
LookedAfterLook(s) == HasRoom(s.current_room)

\* a filter that forgets the defeated enemies (C15 fails on it)
AliveFilterNone(enemies, defeated) == enemies

\* the alive-enemy filter of _do_look, _cmd_move and _cmd_attack
RECURSIVE AliveFilter(_, _)
AliveFilter(enemies, defeated) ==
    IF enemies = <<>> THEN <<>>
    ELSE IF SeqContains(defeated, Head(enemies))
         THEN AliveFilter(Tail(enemies), defeated)
         ELSE <<Head(enemies)>> \o AliveFilter(Tail(enemies), defeated)

\* the undefeated enemies with the last one put first (C18 fails on it)
AliveEnemiesLast(s) ==
    LET a == AliveFilter(RoomDefs[s.current_room].enemies, s.defeated_enemies)
    IN IF a = <<>> THEN <<>> ELSE <<a[Len(a)]>>

\* the undefeated enemies of the current room, in the room's order
AliveEnemies(s) ==
    AliveFilter(RoomDefs[s.current_room].enemies, s.defeated_enemies)

\* the first item of a list that the registry knows and whose name
\* contains the target, <<>> when there is none
RECURSIVE FirstMatch(_, _)
FirstMatch(items, target) ==
    IF items = <<>> THEN <<>>
    ELSE IF HasItemDef(Head(items)) /\ NameContains(Head(items), target)
         THEN <<Head(items)>>
         ELSE FirstMatch(Tail(items), target)

\* a set_scene that forgets to call enter() (C19 fails on it)
SetSceneNoEnter(name, s) ==
    /\ current' = name
    /\ state' = s
    /\ looked' = looked
    /\ entered' = "none"
    /\ invalid_choices' = 0

\* GameLoop.set_scene(name) followed by the scene's enter(): only
\* ExploreScene.enter writes state
SetScene(name, s) ==
    /\ current' = name
    /\ state' = IF name = "explore" THEN DoLook(s) ELSE s
    /\ looked' = IF name = "explore" THEN LookedAfterLook(s) ELSE looked
    /\ entered' = name
    /\ invalid_choices' = 0

NoResult == [set |-> FALSE, victory |-> FALSE, fled |-> FALSE,
             xp |-> 0, gold |-> 0]

NoRound == [action |-> "none", player_turns |-> 0, enemy_turns |-> 0]

NoDamage == [target |-> "none", incoming |-> 0, actual |-> 0,
             before |-> 0, after |-> 0]

\* outside Battle.run no Battle object is alive: CombatScene.update has
\* returned and dropped it together with its result
BattleGone ==
    /\ bpc' = "idle" /\ enemy' = NoEnemy /\ defending' = FALSE
    /\ turn_count' = 0 /\ result' = NoResult /\ round' = NoRound
    /\ last_damage' = NoDamage /\ published' = NoEvents

InScene(name) == running /\ current = name /\ bpc = "idle"

\* ---- TitleScene -------------------------------------------------------

TitleNewGame(name) ==
    /\ InScene("title") /\ ~eof
    /\ SetScene("explore", NewGameState(name))
    /\ UNCHANGED <<save_file, room_items, running, pending_enemy_id, eof, handlers, invoked, templates>>
    /\ BattleGone

TitleLoadGame ==
    /\ InScene("title") /\ ~eof
    /\ IF save_file = <<>>
       THEN /\ UNCHANGED <<state, current, looked>> /\ entered' = "none" /\ UNCHANGED invalid_choices
       ELSE /\ SetScene("explore", LoadFile(save_file))
    /\ UNCHANGED <<save_file, room_items, running, pending_enemy_id, eof, handlers, invoked, templates>>
    /\ BattleGone

TitleQuit ==
    /\ InScene("title") /\ ~eof
    /\ running' = FALSE
    /\ UNCHANGED <<state, save_file, room_items, current, pending_enemy_id,
                   looked, eof, handlers, invoked, templates>>
    /\ BattleGone
    /\ entered' = "none" /\ UNCHANGED invalid_choices

\* choice_menu returns -1 on a bad line and on end-of-input
TitleInvalid ==
    /\ InScene("title")
    /\ UNCHANGED <<state, save_file, room_items, current, running,
                   pending_enemy_id, looked, eof, handlers, invoked, templates>>
    /\ BattleGone
    /\ entered' = "none"
    /\ invalid_choices' = (invalid_choices + 1) % 2

\* ---- DeathScene -------------------------------------------------------

DeathLoad ==
    /\ InScene("death") /\ ~eof
    /\ IF save_file = <<>>
       THEN /\ UNCHANGED <<state, current, looked>> /\ entered' = "none" /\ UNCHANGED invalid_choices
       ELSE /\ SetScene("explore", LoadFile(save_file))
    /\ UNCHANGED <<save_file, room_items, running, pending_enemy_id, eof, handlers, invoked, templates>>
    /\ BattleGone

DeathNewGame ==
    /\ InScene("death") /\ ~eof
    /\ SetScene("title", state)
    /\ UNCHANGED <<save_file, room_items, running, pending_enemy_id, eof, handlers, invoked, templates>>
    /\ BattleGone

DeathQuit ==
    /\ InScene("death") /\ ~eof
    /\ running' = FALSE
    /\ UNCHANGED <<state, save_file, room_items, current, pending_enemy_id,
                   looked, eof, handlers, invoked, templates>>
    /\ BattleGone
    /\ entered' = "none" /\ UNCHANGED invalid_choices

DeathInvalid ==
    /\ InScene("death")
    /\ UNCHANGED <<state, save_file, room_items, current, running,
                   pending_enemy_id, looked, eof, handlers, invoked, templates>>
    /\ BattleGone
    /\ entered' = "none"
    /\ invalid_choices' = (invalid_choices + 1) % 2

\* ---- ExploreScene -----------------------------------------------------

\* ExploreScene.update up to the prompt: look first if not yet looked
ExploreBase == IF ~looked THEN DoLook(state) ELSE state

\* update() reads a line: the room exists and the stream has not ended
AtExplorePrompt ==
    InScene("explore") /\ HasRoom(state.current_room) /\ ~eof

\* a fallback to the title that also resets the progress state (C30 fails
\* on it)
ExploreRoomMissingResets ==
    /\ InScene("explore") /\ ~HasRoom(state.current_room)
    /\ SetScene("title", NewGameState("Hero"))
    /\ UNCHANGED <<save_file, room_items, running, pending_enemy_id, eof, handlers, invoked, templates>>
    /\ BattleGone

\* update() with current_room missing from the world map
ExploreRoomMissing ==
    /\ InScene("explore") /\ ~HasRoom(state.current_room)
    /\ SetScene("title", state)
    /\ UNCHANGED <<save_file, room_items, running, pending_enemy_id, eof, handlers, invoked, templates>>
    /\ BattleGone

\* update() at end-of-input
ExploreEOF ==
    /\ InScene("explore") /\ HasRoom(state.current_room) /\ eof
    /\ state' = ExploreBase /\ looked' = TRUE
    /\ running' = FALSE
    /\ UNCHANGED <<save_file, room_items, current, pending_enemy_id, eof, handlers, invoked, templates>>
    /\ BattleGone
    /\ entered' = "none" /\ UNCHANGED invalid_choices

\* an empty line, or a verb with no handler
ExploreOther(raw) ==
    /\ AtExplorePrompt
    /\ state' = ExploreBase /\ looked' = TRUE
    /\ UNCHANGED <<save_file, room_items, current, running,
                   pending_enemy_id, eof, handlers, invoked, templates>>
    /\ BattleGone
    /\ entered' = "none" /\ UNCHANGED invalid_choices

CmdLook ==
    /\ AtExplorePrompt
    /\ state' = DoLook(ExploreBase) /\ looked' = TRUE
    /\ UNCHANGED <<save_file, room_items, current, running,
                   pending_enemy_id, eof, handlers, invoked, templates>>
    /\ BattleGone
    /\ entered' = "none" /\ UNCHANGED invalid_choices

\* examine, inventory, stats, help, talk: they print and write nothing
CmdDisplay(verb) ==
    /\ AtExplorePrompt
    /\ state' = ExploreBase /\ looked' = TRUE
    /\ UNCHANGED <<save_file, room_items, current, running,
                   pending_enemy_id, eof, handlers, invoked, templates>>
    /\ BattleGone
    /\ entered' = "none" /\ UNCHANGED invalid_choices

\* ExploreScene._cmd_move: the error it prints before an early return, as
\* the pieces of the printed line; <<>> when the move goes through
MoveReport(s, direction) ==
    LET ex == GetExit(s.current_room, direction)
    IN IF direction = "" THEN <<"Move where? Specify a direction.">>
       ELSE IF ex = <<>> THEN <<"You can't go ", direction, ".">>
       ELSE IF ~IsAccessible(ex[1], s.flags) THEN <<ex[1].lock_message>>
       ELSE <<>>

CmdMove(direction) ==
    /\ AtExplorePrompt
    /\ LET s0 == ExploreBase
           ex == GetExit(s0.current_room, direction)
       IN IF MoveReport(s0, direction) # <<>>
          THEN /\ state' = s0 /\ looked' = TRUE
               /\ UNCHANGED <<current, pending_enemy_id>> /\ entered' = "none" /\ UNCHANGED invalid_choices
          ELSE LET s1 == [s0 EXCEPT !.current_room = ex[1].target_room]
                   s2 == DoLook(s1)
               IN /\ state' = s2
                  /\ looked' = LookedAfterLook(s1)
                  /\ IF HasRoom(s2.current_room) /\ AliveEnemies(s2) # <<>>
                     THEN /\ pending_enemy_id' = AliveEnemies(s2)[1]
                          /\ current' = "combat" /\ entered' = "combat" /\ UNCHANGED invalid_choices
                     ELSE UNCHANGED <<current, pending_enemy_id>> /\ entered' = "none" /\ UNCHANGED invalid_choices
    /\ UNCHANGED <<save_file, room_items, running, eof, handlers, invoked, templates>>
    /\ BattleGone

CmdTake(target) ==
    /\ AtExplorePrompt
    /\ LET s0 == ExploreBase
           here == room_items[s0.current_room]
           hit == FirstMatch(here, target)
       IN IF target = ""
          THEN /\ state' = s0 /\ UNCHANGED room_items
          ELSE IF hit = <<>>
          THEN /\ state' = s0 /\ UNCHANGED room_items
          ELSE /\ room_items' = [room_items EXCEPT ![s0.current_room] =
                                    SeqRemoveFirst(here, hit[1])]
               /\ state' = AddItem(s0, hit[1])
    /\ looked' = TRUE
    /\ UNCHANGED <<save_file, current, running, pending_enemy_id, eof, handlers, invoked, templates>>
    /\ BattleGone
    /\ entered' = "none" /\ UNCHANGED invalid_choices

CmdDrop(target) ==
    /\ AtExplorePrompt
    /\ LET s0 == ExploreBase
           hit == FirstMatch(s0.inventory, target)
       IN IF target = ""
          THEN /\ state' = s0 /\ UNCHANGED room_items
          ELSE IF hit = <<>>
          THEN /\ state' = s0 /\ UNCHANGED room_items
          ELSE /\ state' = RemoveItem(s0, hit[1])
               /\ room_items' = [room_items EXCEPT ![s0.current_room] =
                                    Append(@, hit[1])]
    /\ looked' = TRUE
    /\ UNCHANGED <<save_file, current, running, pending_enemy_id, eof, handlers, invoked, templates>>
    /\ BattleGone
    /\ entered' = "none" /\ UNCHANGED invalid_choices

CmdEquip(target) ==
    /\ AtExplorePrompt
    /\ LET s0 == ExploreBase
           hit == FirstMatch(s0.inventory, target)
       IN IF target = ""
          THEN /\ state' = s0
          ELSE IF hit = <<>>
          THEN /\ state' = s0
          ELSE /\ state' = Equip(s0, hit[1])
    /\ looked' = TRUE
    /\ UNCHANGED <<save_file, room_items, current, running,
                   pending_enemy_id, eof, handlers, invoked, templates>>
    /\ BattleGone
    /\ entered' = "none" /\ UNCHANGED invalid_choices

CmdUnequip(target) ==
    /\ AtExplorePrompt
    /\ LET s0 == ExploreBase
       IN IF target \in {"weapon", "armor"}
          THEN IF UnequipError(s0, target) # NoneVal
               THEN state' = s0
               ELSE /\ state' = Unequip(s0, target)
          ELSE /\ state' = s0
    /\ looked' = TRUE
    /\ UNCHANGED <<save_file, room_items, current, running,
                   pending_enemy_id, eof, handlers, invoked, templates>>
    /\ BattleGone
    /\ entered' = "none" /\ UNCHANGED invalid_choices

CmdUse(target) ==
    /\ AtExplorePrompt
    /\ LET s0 == ExploreBase
           hit == FirstMatch(s0.inventory, target)
       IN IF target = ""
          THEN /\ state' = s0
          ELSE IF hit = <<>>
          THEN /\ state' = s0
          ELSE /\ state' = UseItem(s0, hit[1])
    /\ looked' = TRUE
    /\ UNCHANGED <<save_file, room_items, current, running,
                   pending_enemy_id, eof, handlers, invoked, templates>>
    /\ BattleGone
    /\ entered' = "none" /\ UNCHANGED invalid_choices

CmdAttack ==
    /\ AtExplorePrompt
    /\ LET s0 == ExploreBase
       IN /\ state' = s0
          /\ IF AliveEnemies(s0) = <<>>
             THEN /\ UNCHANGED <<current, pending_enemy_id>> /\ entered' = "none" /\ UNCHANGED invalid_choices
             ELSE /\ pending_enemy_id' = AliveEnemies(s0)[1]
                  /\ current' = "combat" /\ entered' = "combat" /\ UNCHANGED invalid_choices
    /\ looked' = TRUE
    /\ UNCHANGED <<save_file, room_items, running, eof, handlers, invoked, templates>>
    /\ BattleGone

CmdSave ==
    /\ AtExplorePrompt
    /\ state' = ExploreBase /\ looked' = TRUE
    /\ save_file' = SaveFile(ExploreBase)
    /\ UNCHANGED <<room_items, current, running, pending_enemy_id, eof, handlers, invoked, templates>>
    /\ BattleGone
    /\ entered' = "none" /\ UNCHANGED invalid_choices

CmdLoad ==
    /\ AtExplorePrompt
    /\ IF save_file = <<>>
       THEN /\ state' = ExploreBase /\ looked' = TRUE
       ELSE /\ state' = DoLook(LoadFile(save_file))
            /\ looked' = LookedAfterLook(LoadFile(save_file))
    /\ UNCHANGED <<save_file, room_items, current, running,
                   pending_enemy_id, eof, handlers, invoked, templates>>
    /\ BattleGone
    /\ entered' = "none" /\ UNCHANGED invalid_choices

CmdQuit ==
    /\ AtExplorePrompt
    /\ state' = ExploreBase /\ looked' = TRUE
    /\ running' = FALSE
    /\ UNCHANGED <<save_file, room_items, current, pending_enemy_id, eof, handlers, invoked, templates>>
    /\ BattleGone
    /\ entered' = "none" /\ UNCHANGED invalid_choices

\* ---- CombatScene and Battle (combat/battle.py) ------------------------

\* the flag name f"defeated_{enemy_id}"
DefeatedFlag(enemy_id) ==
    CASE enemy_id = "goblin" -> "defeated_goblin"
      [] enemy_id = "troll"  -> "defeated_troll"
      [] enemy_id = "ghost"  -> "defeated_ghost"
      [] OTHER -> "defeated_"

\* BattleResult(victory, fled, xp, gold)
BattleResult(victory, fled, xp, gold) ==
    [set |-> TRUE, victory |-> victory, fled |-> fled, xp |-> xp, gold |-> gold]

\* a defeat that leads back to the title (C16 fails on it)
SceneAfterBattleTitle(r) ==
    IF r.victory THEN "explore" ELSE IF r.fled THEN "explore" ELSE "title"

\* CombatScene.update: the scene a result leads to
SceneAfterBattle(r) ==
    IF r.victory THEN "explore" ELSE IF r.fled THEN "explore" ELSE "death"

\* CombatScene.update up to the first loop test of Battle.run
CombatUpdate ==
    /\ InScene("combat")
    /\ pending_enemy_id' = NoneVal
    /\ IF pending_enemy_id = NoneVal
       THEN /\ SetScene("explore", state)
            /\ BattleGone
       ELSE IF pending_enemy_id \notin EnemyIds
       THEN /\ SetScene("explore", state)
            /\ BattleGone
       ELSE /\ enemy' = EnemyRegistryGet(pending_enemy_id)
            /\ defending' = FALSE
            /\ turn_count' = 0
            /\ bpc' = "loop"
            /\ result' = NoResult /\ round' = NoRound
            /\ last_damage' = NoDamage
            /\ published' = Published(NoEvents, "battle_start")
            /\ UNCHANGED <<state, current, looked>> /\ entered' = "none" /\ UNCHANGED invalid_choices
    /\ UNCHANGED <<save_file, room_items, running, eof, handlers, invoked, templates>>

\* a while test that forgets the player (C1 fails on it)
LoopContinuesEnemyOnly(s, e) == EnemyIsAlive(e)

\* Battle.run: the while test
LoopContinues(s, e) == IsAlive(s) /\ EnemyIsAlive(e)

\* a player turn that leaves the flag as it was (C6 fails on it)
DefendingKept == defending

\* Battle._player_turn: the flag on entry
DefendingAtTurnStart == FALSE

\* Battle.run: one more iteration, up to the prompt of _player_turn
RoundStart ==
    /\ running /\ bpc = "loop"
    /\ LoopContinues(state, enemy)
    /\ turn_count' = turn_count + 1
    /\ defending' = DefendingAtTurnStart
    /\ round' = NoRound
    /\ bpc' = "prompt"
    /\ UNCHANGED <<state, save_file, room_items, current, running,
                   pending_enemy_id, looked, eof, handlers, invoked, templates, enemy, result, last_damage>>
    /\ UNCHANGED <<entered, invalid_choices>>
    /\ UNCHANGED published

\* a loop body that skips the enemy's turn (C2 fails on it)
AfterPlayerTurnNoEnemy(e) == "loop"

\* Battle.run after _player_turn returned None: break, or the enemy's turn
AfterPlayerTurn(e) == IF ~EnemyIsAlive(e) THEN "loop" ELSE "enemy"

\* Battle._do_attack: the damage handed to Enemy.take_damage
PlayerAttackAmount(s) == EffectiveAttack(s)

\* "1" / "attack"
PlayerAttack ==
    /\ running /\ bpc = "prompt" /\ ~eof
    /\ enemy' = EnemyTakeDamage(enemy, PlayerAttackAmount(state))
    /\ last_damage' = [target |-> "enemy",
                       incoming |-> PlayerAttackAmount(state),
                       actual |-> EnemyDamageActual(enemy, PlayerAttackAmount(state)),
                       before |-> enemy.hp, after |-> enemy'.hp]
    /\ round' = [round EXCEPT !.action = "attack", !.player_turns = @ + 1]
    /\ bpc' = AfterPlayerTurn(enemy')
    /\ templates' = RegistryAfterHit(templates, enemy')
    /\ UNCHANGED <<state, save_file, room_items, current, running,
                   pending_enemy_id, looked, eof, handlers, invoked, defending, turn_count, result>>
    /\ UNCHANGED <<entered, invalid_choices>>
    /\ published' = Published(published, "player_attack")

\* "2" / "defend"
PlayerDefend ==
    /\ running /\ bpc = "prompt" /\ ~eof
    /\ defending' = TRUE
    /\ round' = [round EXCEPT !.action = "defend", !.player_turns = @ + 1]
    /\ bpc' = AfterPlayerTurn(enemy)
    /\ UNCHANGED <<state, save_file, room_items, current, running,
                   pending_enemy_id, looked, eof, handlers, invoked, templates, enemy, turn_count, result,
                   last_damage>>
    /\ UNCHANGED <<entered, invalid_choices>>
    /\ UNCHANGED published

\* Battle._do_use_item: the consumables of the inventory, one entry per id,
\* in order of first occurrence
RECURSIVE ConsumableOptions(_, _)
ConsumableOptions(inv, seen) ==
    IF inv = <<>> THEN seen
    ELSE IF HasItemDef(Head(inv))
            /\ ItemDefs[Head(inv)].item_type = "consumable"
            /\ ~SeqContains(seen, Head(inv))
         THEN ConsumableOptions(Tail(inv), Append(seen, Head(inv)))
         ELSE ConsumableOptions(Tail(inv), seen)

\* "3" / "use" / "item": the list is printed, or there is nothing to use
PlayerUseItem ==
    /\ running /\ bpc = "prompt" /\ ~eof
    /\ IF ConsumableOptions(state.inventory, <<>>) = <<>>
       THEN /\ bpc' = "prompt"
       ELSE /\ bpc' = "item"
    /\ UNCHANGED <<state, save_file, room_items, current, running,
                   pending_enemy_id, looked, eof, handlers, invoked, templates, enemy, defending,
                   turn_count, result, round, last_damage>>
    /\ UNCHANGED <<entered, invalid_choices>>
    /\ UNCHANGED published

\* numbers typed at the item prompt; -1 stands for a line that is no number
ItemChoices == {-1, 0, 1, 2}

\* the item prompt of _do_use_item; end-of-input cancels
ItemSelect(choice) ==
    /\ running /\ bpc = "item"
    /\ eof => choice = -1
    /\ LET options == ConsumableOptions(state.inventory, <<>>)
       IN IF choice = 0 \/ choice < 1 \/ choice > Len(options)
          THEN /\ bpc' = "prompt"
               /\ UNCHANGED <<state, round>>
          ELSE /\ state' = UseItem(state, options[choice])
               /\ round' = [round EXCEPT !.action = "item",
                                         !.player_turns = @ + 1]
               /\ bpc' = AfterPlayerTurn(enemy)
    /\ UNCHANGED <<save_file, room_items, current, running,
                   pending_enemy_id, looked, eof, handlers, invoked, templates, enemy, defending,
                   turn_count, result, last_damage>>
    /\ UNCHANGED <<entered, invalid_choices>>
    /\ UNCHANGED published

\* random.random(), in twentieths: floor(20 * r)
RandomValues == 0 .. 19

\* a flee chance without the per-turn bonus (C8 fails on it)
FleeChanceFlat(tc) == 10

\* a flee chance that never reaches certainty (C38 fails on it)
FleeChanceCapped(tc) == IF 10 + tc > 19 THEN 19 ELSE 10 + tc

\* Battle._do_flee: chance = 0.5 + turn_count * 0.05, in twentieths
FleeChance(tc) == 10 + tc

\* Battle._do_flee: random.random() < chance
FleeSucceeds(r, tc) == r < FleeChance(tc)

\* a flee result that forgets fled=True (C7 fails on it)
FleeResultNotFled == BattleResult(FALSE, FALSE, 0, 0)

\* Battle._player_turn: the result of a successful flee
FleeResult == BattleResult(FALSE, TRUE, 0, 0)

\* a flee that counts the enemy as beaten (C37 fails on it)
FleeStateRecords(s, e) ==
    [s EXCEPT !.defeated_enemies = Append(@, e.enemy_id)]

\* Battle._do_flee, success: the progress state it leaves (it writes none)
FleeState(s, e) == s

\* "4" / "flee" / "run", and every line read at end-of-input
PlayerFlee(r) ==
    /\ running /\ bpc = "prompt"
    /\ IF FleeSucceeds(r, turn_count)
       THEN /\ result' = FleeResult
            /\ round' = [round EXCEPT !.action = "flee_ok",
                                      !.player_turns = @ + 1]
            /\ bpc' = "idle"
            /\ SetScene(SceneAfterBattle(result'), FleeState(state, enemy))
       ELSE /\ round' = [round EXCEPT !.action = "flee_fail",
                                      !.player_turns = @ + 1]
            /\ bpc' = AfterPlayerTurn(enemy)
            /\ UNCHANGED <<state, current, looked, result>> /\ entered' = "none" /\ UNCHANGED invalid_choices
    /\ UNCHANGED <<save_file, room_items, running, pending_enemy_id, eof, handlers, invoked, templates,
                   enemy, defending, turn_count, last_damage>>
    /\ published' = IF FleeSucceeds(r, turn_count)
                    THEN Published(published, "battle_flee")
                    ELSE published

\* a prompt at which any other line loses the turn (C28 fails on it)
PlayerInvalidLosesTurn ==
    /\ running /\ bpc = "prompt" /\ ~eof
    /\ bpc' = AfterPlayerTurn(enemy)
    /\ UNCHANGED <<state, save_file, room_items, current, running,
                   pending_enemy_id, looked, eof, handlers, invoked, templates, enemy, defending,
                   turn_count, result, round, last_damage>>
    /\ UNCHANGED <<entered, invalid_choices>>
    /\ UNCHANGED published

\* any other line: re-prompt
PlayerInvalid ==
    /\ running /\ bpc = "prompt" /\ ~eof
    /\ UNCHANGED <<state, save_file, room_items, current, running,
                   pending_enemy_id, looked, eof, handlers, invoked, templates, bpc, enemy, defending,
                   turn_count, result, round, last_damage>>
    /\ UNCHANGED <<entered, invalid_choices>>
    /\ UNCHANGED published

\* Battle._enemy_turn: the damage handed to GameState.take_damage
EnemyBaseDamage(e, d) == IF d THEN e.attack \div 2 ELSE e.attack

\* Battle._enemy_turn
EnemyTurn ==
    /\ running /\ bpc = "enemy"
    /\ state' = TakeDamage(state, EnemyBaseDamage(enemy, defending))
    /\ last_damage' = [target |-> "player",
                       incoming |-> EnemyBaseDamage(enemy, defending),
                       actual |-> TakeDamageActual(state, EnemyBaseDamage(enemy, defending)),
                       before |-> state.hp, after |-> state'.hp]
    /\ round' = [round EXCEPT !.enemy_turns = @ + 1]
    /\ bpc' = "loop"
    /\ UNCHANGED <<save_file, room_items, current, running,
                   pending_enemy_id, looked, eof, handlers, invoked, templates, enemy, defending,
                   turn_count, result>>
    /\ UNCHANGED <<entered, invalid_choices>>
    /\ published' = Published(published, "enemy_attack")

\* a _victory that forgets to record the enemy (C9 fails on it)
VictoryStateNoRecord(s, e) ==
    AddXp([s EXCEPT !.gold = s.gold + e.gold_reward], e.xp_reward)

\* Battle._victory: the progress state it leaves
VictoryState(s, e) ==
    LET s1 == [s EXCEPT !.gold = s.gold + e.gold_reward]
        s2 == AddXp(s1, e.xp_reward)
        s3 == [s2 EXCEPT !.defeated_enemies = Append(@, e.enemy_id)]
    IN SetFlag(s3, DefeatedFlag(e.enemy_id))

\* a run that tests for victory before it tests for defeat (C40 fails on it)
BattleVictoryFirst ==
    /\ running /\ bpc = "loop"
    /\ ~LoopContinues(state, enemy)
    /\ ~EnemyIsAlive(enemy)
    /\ result' = BattleResult(TRUE, FALSE, enemy.xp_reward, enemy.gold_reward)
    /\ bpc' = "idle"
    /\ SetScene(SceneAfterBattle(result'), VictoryState(state, enemy))
    /\ UNCHANGED <<save_file, room_items, running, pending_enemy_id, eof,
                   handlers, invoked, templates, enemy, defending,
                   turn_count, round, last_damage>>
    /\ published' = Published(published, "battle_victory")

\* Battle.run after the loop, player alive: _victory, then back in
\* CombatScene.update
BattleVictory ==
    /\ running /\ bpc = "loop"
    /\ ~LoopContinues(state, enemy)
    /\ IsAlive(state)
    /\ result' = BattleResult(TRUE, FALSE, enemy.xp_reward, enemy.gold_reward)
    /\ bpc' = "idle"
    /\ SetScene(SceneAfterBattle(result'), VictoryState(state, enemy))
    /\ UNCHANGED <<save_file, room_items, running, pending_enemy_id, eof, handlers, invoked, templates,
                   enemy, defending, turn_count, round, last_damage>>
    /\ published' = Published(published, "battle_victory")

\* a _defeat that publishes nothing (C39 fails on it)
BattleDefeatSilent ==
    /\ running /\ bpc = "loop"
    /\ ~LoopContinues(state, enemy)
    /\ ~IsAlive(state)
    /\ result' = BattleResult(FALSE, FALSE, 0, 0)
    /\ bpc' = "idle"
    /\ SetScene(SceneAfterBattle(result'), state)
    /\ UNCHANGED <<save_file, room_items, running, pending_enemy_id, eof,
                   handlers, invoked, templates, enemy, defending,
                   turn_count, round, last_damage, published>>

\* a _defeat that revives the player (C10 fails on it)
DefeatStateRevived(s) == [s EXCEPT !.hp = s.max_hp]

\* a _defeat that costs the player the gold (C33 fails on it)
DefeatStateRobbed(s) == [s EXCEPT !.gold = 0]

\* Battle._defeat: the progress state it leaves (it writes none)
DefeatState(s) == s

\* Battle.run after the loop, player dead: _defeat
BattleDefeat ==
    /\ running /\ bpc = "loop"
    /\ ~LoopContinues(state, enemy)
    /\ ~IsAlive(state)
    /\ result' = BattleResult(FALSE, FALSE, 0, 0)
    /\ bpc' = "idle"
    /\ SetScene(SceneAfterBattle(result'), DefeatState(state))
    /\ UNCHANGED <<save_file, room_items, running, pending_enemy_id, eof, handlers, invoked, templates,
                   enemy, defending, turn_count, round, last_damage>>
    /\ published' = Published(published, "battle_defeat")

\* ---- interrupts and end-of-input -------------------------------------

\* a loop that a KeyboardInterrupt ends (C20 fails on it)
InterruptEnds ==
    /\ running
    /\ \/ bpc # "idle"
       \/ current \in {"title", "death"}
       \/ current = "explore" /\ HasRoom(state.current_room)
    /\ running' = FALSE
    /\ BattleGone
    /\ entered' = "none" /\ UNCHANGED invalid_choices
    /\ UNCHANGED <<state, save_file, room_items, current,
                   pending_enemy_id, looked, eof, handlers, invoked, templates>>

\* KeyboardInterrupt while update() blocks on input or sleeps: GameLoop.run
\* prints a hint and continues with the same scene
Interrupt ==
    /\ running
    /\ \/ bpc # "idle"
       \/ current \in {"title", "death"}
       \/ current = "explore" /\ HasRoom(state.current_room)
    /\ state' = IF current = "explore" /\ bpc = "idle"
                THEN ExploreBase ELSE state
    /\ looked' = IF current = "explore" /\ bpc = "idle" THEN TRUE ELSE looked
    /\ BattleGone
    /\ UNCHANGED <<save_file, room_items, current, running,
                   pending_enemy_id, eof, handlers, invoked, templates>>
    /\ entered' = "none" /\ UNCHANGED invalid_choices

\* the input stream ends
InputEnds ==
    /\ running /\ ~eof
    /\ eof' = TRUE
    /\ UNCHANGED <<handlers, invoked, published>>
    /\ UNCHANGED templates
    /\ UNCHANGED <<state, save_file, room_items, current, running,
                   pending_enemy_id, looked, bpc, enemy, defending,
                   turn_count, result, round, last_damage>>
    /\ UNCHANGED <<entered, invalid_choices>>

(***************************************************************************)
(* Specification                                                           *)
(***************************************************************************)

\* main(): GameContext(), load_data(), GameLoop.run("title")
Init ==
    /\ state = NewGameState("Hero")
    /\ save_file = <<>>
    /\ room_items = [r \in RoomIds |-> RoomDefs[r].items]
    /\ current = "title"
    /\ running = TRUE
    /\ pending_enemy_id = NoneVal
    /\ looked = FALSE
    /\ eof = FALSE
    /\ templates = EnemyDefs
    /\ invalid_choices = 0
    /\ handlers = NoHandlers
    /\ invoked = <<>>
    /\ published = NoEvents
    /\ bpc = "idle"
    /\ enemy = NoEnemy
    /\ defending = FALSE
    /\ turn_count = 0
    /\ result = NoResult
    /\ round = NoRound
    /\ last_damage = NoDamage
    /\ entered = "title"

\* one command or one battle step of a session
SceneStep ==
    \/ \E name \in PlayerNames : TitleNewGame(name)
    \/ TitleLoadGame
    \/ TitleQuit
    \/ TitleInvalid
    \/ DeathLoad
    \/ DeathNewGame
    \/ DeathQuit
    \/ DeathInvalid
    \/ ExploreRoomMissing
    \/ ExploreEOF
    \/ \E raw \in {"", "dance"} : ExploreOther(raw)
    \/ CmdLook
    \/ \E verb \in DisplayVerbs : CmdDisplay(verb)
    \/ \E direction \in MoveInputs : CmdMove(direction)
    \/ \E target \in Targets : CmdTake(target)
    \/ \E target \in Targets : CmdEquip(target)
    \/ \E target \in SlotInputs : CmdUnequip(target)
    \/ \E target \in Targets : CmdUse(target)
    \/ CmdAttack
    \/ CmdLoad
    \/ CmdQuit
    \/ CombatUpdate
    \/ Interrupt
    \/ InputEnds

\* a step of Battle.run that waits for nothing
BattleInternal ==
    \/ RoundStart
    \/ EnemyTurn
    \/ BattleVictory
    \/ BattleDefeat

\* a line at the combat prompt that ends the player's turn
TurnCompletes ==
    \/ PlayerAttack
    \/ PlayerDefend
    \/ \E r \in RandomValues : PlayerFlee(r)
    \/ \E choice \in ItemChoices :
          (choice >= 1 /\ choice <= Len(ConsumableOptions(state.inventory, <<>>))
           /\ ItemSelect(choice))

\* a line at a combat prompt that re-prompts
TurnReprompts ==
    \/ PlayerUseItem
    \/ PlayerInvalid
    \/ \E choice \in ItemChoices :
          (~(choice >= 1 /\ choice <= Len(ConsumableOptions(state.inventory, <<>>)))
           /\ ItemSelect(choice))

\* Sessions in which the player neither saves nor drops an item (CmdSave and
\* CmdDrop are left to the specifications of the world and of persistence).
Next == SceneStep \/ BattleInternal \/ TurnCompletes \/ TurnReprompts

Spec == Init /\ [][Next]_vars

\* at end-of-input the item prompt returns at once and cancels
ItemPromptEOF == eof /\ ItemSelect(-1)

\* Battle.run is sequential code: a step that waits for nothing is taken, a
\* read at end-of-input returns at once, and every prompt eventually
\* receives a line that ends the turn.
FairSpec ==
    /\ Spec
    /\ WF_vars(BattleInternal)
    /\ WF_vars(ItemPromptEOF)
    /\ WF_vars(TurnCompletes)

(***************************************************************************)
(* One battle between a level-1 player and any small enemy                 *)
(***************************************************************************)

MaxPlayerHp == 12
MaxEnemyHp == 2
MaxEnemyAttack == 8
MaxEnemyDefense == 11

\* Enemy.from_dict over any enemy record with small numbers; the defenses
\* lie around the player's attack of 10
AnyEnemy ==
    { [enemy_id |-> "goblin", hp |-> h, max_hp |-> h, attack |-> a,
       defense |-> d, xp_reward |-> 110, gold_reward |-> 5] :
         h \in 0 .. MaxEnemyHp, a \in 0 .. MaxEnemyAttack,
         d \in 8 .. MaxEnemyDefense }

\* Battle(player, enemy) just constructed by CombatScene.update, the player
\* at any small hp, and run() about to test its loop
BattleInit ==
    /\ state \in { [NewGameState("Hero") EXCEPT !.hp = h] :
                      h \in 0 .. MaxPlayerHp }
    /\ enemy \in { EnemyCopy(e) : e \in AnyEnemy }
    /\ save_file = <<>>
    /\ room_items = [r \in RoomIds |-> RoomDefs[r].items]
    /\ current = "combat"
    /\ running = TRUE
    /\ pending_enemy_id = NoneVal
    /\ looked = TRUE
    /\ eof = FALSE
    /\ templates = EnemyDefs
    /\ invalid_choices = 0
    /\ handlers = NoHandlers
    /\ invoked = <<>>
    /\ published = Published(NoEvents, "battle_start")
    /\ bpc = "loop"
    /\ defending = FALSE
    /\ turn_count = 0
    /\ result = NoResult
    /\ round = NoRound
    /\ last_damage = NoDamage
    /\ entered = "none"

BattleNext ==
    \/ BattleInternal
    \/ PlayerAttack
    \/ PlayerDefend
    \/ PlayerUseItem
    \/ \E r \in RandomValues : PlayerFlee(r)
    \/ PlayerInvalid

BattleSpec == BattleInit /\ [][BattleNext]_vars

(***************************************************************************)
(* Properties of the battle                                                *)
(***************************************************************************)

\* Battle.run has been entered and has not returned
InBattle == bpc # "idle"

\* the hp the consumables of an inventory can still give back
RECURSIVE HealingLeft(_)
HealingLeft(inv) ==
    IF inv = <<>> THEN 0
    ELSE (IF HasItemDef(Head(inv))
             /\ ItemDefs[Head(inv)].item_type = "consumable"
          THEN ItemDefs[Head(inv)].heal_amount ELSE 0)
         + HealingLeft(Tail(inv))

\* C1: a battle always terminates, in exactly one of victory, defeat or
\* fled.  While the battle runs the player's hp plus the healing left in the
\* inventory never grows and every enemy turn costs at least 1 hp; the
\* battle is left only with a result (or by a keyboard interrupt, which
\* writes nothing); a result is never victory and fled at once; and a battle
\* that has been entered is eventually left.
C1_BattleTerminates ==
    /\ [](result.set => ~(result.victory /\ result.fled))
    /\ [][(InBattle /\ InBattle') =>
            /\ state'.hp + HealingLeft(state'.inventory)
                 <= state.hp + HealingLeft(state.inventory)
            /\ (round'.enemy_turns > round.enemy_turns
                  => state'.hp <= state.hp - 1)]_vars
    /\ [][(InBattle /\ ~InBattle') => (result'.set \/ state' = state)]_vars
    /\ (InBattle ~> ~InBattle)

\* a battle that returned a result after at least three rounds
C1_Witness == ~InBattle /\ result.set /\ turn_count >= 3

\* C2: turns alternate.  A round holds at most one player turn and no enemy
\* turn before it; the enemy acts only with both combatants alive; and when
\* the loop test is reached again after a player turn that left the enemy
\* alive, exactly one enemy turn has followed that player turn.
C2_TurnsAlternate ==
    InBattle =>
      /\ round.player_turns <= 1
      /\ round.enemy_turns <= round.player_turns
      /\ (bpc \in {"prompt", "item"} => round.player_turns = 0)
      /\ (bpc = "enemy" => /\ round.player_turns = 1
                           /\ round.enemy_turns = 0
                           /\ state.hp > 0 /\ enemy.hp > 0)
      /\ (bpc = "loop" /\ turn_count > 0 =>
            /\ round.player_turns = 1
            /\ round.enemy_turns = IF enemy.hp > 0 THEN 1 ELSE 0)

\* the second round is complete and both combatants are still alive
C2_Witness ==
    /\ bpc = "loop" /\ turn_count >= 2
    /\ state.hp > 0 /\ enemy.hp > 0
    /\ round.player_turns = 1 /\ round.enemy_turns = 1

\* C3: a successful player attack lowers the enemy's hp by
\* max(1, attack + weapon bonus - enemy defense), the bonus being 0 without
\* a weapon, and the hp stops at 0.
C3_AttackDamage ==
    (InBattle /\ last_damage.target = "enemy") =>
        LET weapon_bonus ==
                IF state.equipped_weapon = NoneVal THEN 0
                ELSE IF state.equipped_weapon \in DOMAIN ItemDefs
                     THEN ItemDefs[state.equipped_weapon].attack_bonus
                     ELSE 0
            damage == Max(1, state.attack + weapon_bonus - enemy.defense)
        IN /\ enemy.hp = Max(0, last_damage.before - damage)
           /\ last_damage.after = enemy.hp

\* an attack with the iron sword in hand: 10 + 3 - 2 = 11
C3_Witness ==
    /\ InBattle /\ last_damage.target = "enemy"
    /\ state.equipped_weapon = "sword"
    /\ last_damage.before - last_damage.after = 11

\* C4, as the specification states it: an enemy turn lowers the player's hp
\* by max(1, d - (defense + armor bonus)), d being the enemy's attack,
\* halved if the player defended.  Battle._enemy_turn hands d to
\* GameState.take_damage, which subtracts the base defense only, so the
\* statement fails as soon as armor is worn.
C4_EnemyDamageUsesArmor ==
    (InBattle /\ round.enemy_turns = 1 /\ last_damage.target = "player") =>
        LET armor_bonus ==
                IF state.equipped_armor = NoneVal THEN 0
                ELSE IF state.equipped_armor \in DOMAIN ItemDefs
                     THEN ItemDefs[state.equipped_armor].defense_bonus
                     ELSE 0
            d == IF defending THEN enemy.attack \div 2 ELSE enemy.attack
            damage == Max(1, d - (state.defense + armor_bonus))
        IN state.hp = Max(0, last_damage.before - damage)

\* C5: every damage application, to the player or to the enemy, takes at
\* least 1 hp, whatever the attack and the defense.
C5_DamageAtLeastOne ==
    last_damage.target # "none" =>
        /\ last_damage.actual >= 1
        /\ last_damage.before - last_damage.after >= 1

\* a hit on the player whose attack value is below the player's defense
C5_Witness ==
    /\ last_damage.target = "player"
    /\ last_damage.incoming < state.defense
    /\ last_damage.before - last_damage.after = 1

\* C6: Defend lasts one round.  The flag is down at every combat prompt,
\* and the enemy's attack of a round is halved exactly when the action of
\* that same round was Defend.
C6_DefendOneRound ==
    /\ (bpc \in {"prompt", "item"} => ~defending)
    /\ (InBattle /\ round.enemy_turns = 1) =>
          /\ last_damage.target = "player"
          /\ last_damage.incoming =
                IF round.action = "defend"
                THEN enemy.attack \div 2 ELSE enemy.attack

\* round 2 of a fight with the goblin: round 1 was defended (100 - 27 = 73
\* hp left), round 2 is an attack and the goblin hits with its full 65
C6_Witness ==
    /\ InBattle /\ turn_count = 2 /\ round.enemy_turns = 1
    /\ round.action = "attack"
    /\ last_damage.before = 73 /\ last_damage.incoming = 65

\* C7: a flee that succeeds ends the battle at once with the result fled
\* and no enemy turn; a flee that fails ends the player's turn and the
\* enemy acts in the same round.
C7_Flee ==
    /\ round.action = "flee_ok" =>
          /\ ~InBattle
          /\ result.set /\ result.fled /\ ~result.victory
          /\ round.enemy_turns = 0
    /\ (InBattle /\ round.action = "flee_fail") =>
          \/ bpc = "enemy" /\ round.enemy_turns = 0
          \/ bpc = "loop" /\ round.enemy_turns = 1

\* a failed flee and the enemy turn that followed it
C7_Witness ==
    /\ InBattle /\ round.action = "flee_fail"
    /\ round.enemy_turns = 1 /\ last_damage.target = "player"

\* the number of random values, out of 20, for which a flee succeeds
FleeProbability(tc) == Cardinality({r \in RandomValues : FleeSucceeds(r, tc)})

\* the first combat prompt of a battle: no damage has been dealt yet
FirstPlayerTurn == bpc = "prompt" /\ last_damage.target = "none"

\* the flee probability never falls from one player turn to the next
FleeMonotone ==
    InBattle =>
        \A t \in 0 .. turn_count :
            FleeProbability(t) <= FleeProbability(turn_count)

\* C8, as the specification states it: the flee probability is
\* non-decreasing in the player turns taken and is exactly 0.5 on the first
\* player turn of a battle.
C8_FirstTurnHalf ==
    /\ FleeMonotone
    /\ FirstPlayerTurn =>
          2 * FleeProbability(turn_count) = Cardinality(RandomValues)

\* C8, amended: the flee probability is non-decreasing in the player turns
\* taken and is exactly 0.55 on the first player turn of a battle
\* (turn_count is already 1 there).
C8_FirstTurnChance ==
    /\ FleeMonotone
    /\ FirstPlayerTurn =>
          100 * FleeProbability(turn_count) = 55 * Cardinality(RandomValues)

\* a flee attempted on the first player turn
C8_Witness ==
    /\ turn_count = 1
    /\ round.action \in {"flee_ok", "flee_fail"}
    /\ last_damage.target = "none"

\* C9: on victory the player's gold grows by the enemy's gold reward, the
\* xp reward is added through the leveling rule, the enemy's id is in
\* defeated_enemies and the flag defeated_<enemy_id> is true.
C9_VictoryRewards ==
    [][(~result.set /\ result'.set /\ result'.victory) =>
         /\ state'.gold = state.gold + enemy.gold_reward
         /\ IF state.xp + enemy.xp_reward >= state.xp_to_level
            THEN /\ state'.level = state.level + 1
                 /\ state'.xp = state.xp + enemy.xp_reward - state.xp_to_level
            ELSE /\ state'.level = state.level
                 /\ state'.xp = state.xp + enemy.xp_reward
         /\ SeqContains(state'.defeated_enemies, enemy.enemy_id)
         /\ (enemy.enemy_id = "goblin" =>
               /\ "defeated_goblin" \in DOMAIN state'.flags
               /\ state'.flags["defeated_goblin"] = TRUE)
         /\ (enemy.enemy_id = "troll" =>
               /\ "defeated_troll" \in DOMAIN state'.flags
               /\ state'.flags["defeated_troll"] = TRUE)]_vars

\* the goblin is beaten and its 110 xp have raised the player to level 2
C9_Witness ==
    /\ result.set /\ result.victory
    /\ enemy.enemy_id = "goblin"
    /\ state.level = 2 /\ state.xp = 10 /\ state.gold = 5

\* C10: a battle ends in defeat exactly when the player's hp has reached 0;
\* the defeat result has victory = false and fled = false, carries no xp
\* and no gold, and the defeat writes nothing to the progress state: no
\* reward, no defeated enemy, no recovery.
C10_Defeat ==
    /\ [](result.set =>
            ((~result.victory /\ ~result.fled) <=> state.hp = 0))
    /\ [][(~result.set /\ result'.set /\ ~result'.victory /\ ~result'.fled) =>
            /\ state' = state
            /\ state'.hp = 0
            /\ result'.xp = 0 /\ result'.gold = 0]_vars

\* the enemy has brought the player to 0 hp and the battle returned defeat
C10_Witness ==
    /\ result.set /\ ~result.victory /\ ~result.fled
    /\ turn_count >= 1 /\ last_damage.target = "player"
    /\ state.hp = 0 /\ state.gold = 0 /\ state.defeated_enemies = <<>>

(***************************************************************************)
(* Victories over enemies with any xp reward                               *)
(***************************************************************************)

\* xp rewards an enemy file may give: none, one point, just below, at and
\* above the first threshold of 100, and more than two thresholds at once
XpRewards == {0, 1, 99, 100, 160, 250}

\* hp the player may have left when a battle is won
HpAtVictory == {1, 100}

\* enemy ids of the content; each can be beaten once
XpEnemyIds == {"goblin", "troll", "ghost"}

\* Enemy.from_dict over any enemy record with one of these rewards, beaten
BeatenEnemies ==
    { [enemy_id |-> i, hp |-> 0, max_hp |-> 16, attack |-> 65,
       defense |-> 2, xp_reward |-> x, gold_reward |-> 5] :
         i \in XpEnemyIds, x \in XpRewards }

\* a new game, the player's hp worn down by the first fight
XpInit ==
    /\ state \in { [NewGameState("Hero") EXCEPT !.hp = h] : h \in HpAtVictory }
    /\ save_file = <<>>
    /\ room_items = [r \in RoomIds |-> RoomDefs[r].items]
    /\ current = "combat"
    /\ running = TRUE
    /\ pending_enemy_id = NoneVal
    /\ looked = TRUE
    /\ eof = FALSE
    /\ templates = EnemyDefs
    /\ invalid_choices = 0
    /\ handlers = NoHandlers
    /\ invoked = <<>>
    /\ published = NoEvents
    /\ bpc = "idle"
    /\ enemy = NoEnemy
    /\ defending = FALSE
    /\ turn_count = 0
    /\ result = NoResult
    /\ round = NoRound
    /\ last_damage = NoDamage
    /\ entered = "none"

\* Battle._victory over an enemy that has not been beaten before
VictoryOver(e) ==
    /\ ~SeqContains(state.defeated_enemies, e.enemy_id)
    /\ enemy' = e
    /\ state' = VictoryState(state, e)
    /\ result' = BattleResult(TRUE, FALSE, e.xp_reward, e.gold_reward)
    /\ UNCHANGED <<save_file, room_items, current, running, pending_enemy_id,
                   looked, eof, handlers, invoked, templates, bpc, defending, turn_count, round,
                   last_damage>>
    /\ UNCHANGED <<entered, invalid_choices>>
    /\ UNCHANGED published

XpNext == \E e \in BeatenEnemies : VictoryOver(e)

XpSpec == XpInit /\ [][XpNext]_vars

\* C11: add_xp.  When the gain makes xp reach or exceed xp_to_level, level
\* grows by exactly 1, xp becomes xp + gain - old xp_to_level, xp_to_level
\* becomes floor(old xp_to_level * 1.5), max_hp grows by 10 and hp is the
\* new max_hp, attack grows by 2 and defense by 1, and add_xp returns true;
\* otherwise only xp changes, by the gain, and add_xp returns false.
C11_AddXp ==
    [][LET gain == enemy'.xp_reward
       IN IF state.xp + gain >= state.xp_to_level
          THEN /\ state'.level = state.level + 1
               /\ state'.xp = state.xp + gain - state.xp_to_level
               /\ 2 * state'.xp_to_level <= 3 * state.xp_to_level
               /\ 3 * state.xp_to_level < 2 * state'.xp_to_level + 2
               /\ state'.max_hp = state.max_hp + 10
               /\ state'.hp = state'.max_hp
               /\ state'.attack = state.attack + 2
               /\ state'.defense = state.defense + 1
               /\ AddXpLevels(state, gain) = TRUE
          ELSE /\ state'.xp = state.xp + gain
               /\ state'.level = state.level
               /\ state'.xp_to_level = state.xp_to_level
               /\ state'.max_hp = state.max_hp
               /\ state'.hp = state.hp
               /\ state'.attack = state.attack
               /\ state'.defense = state.defense
               /\ AddXpLevels(state, gain) = FALSE]_vars

\* three level-ups: xp_to_level went 100, 150, 225, floor(337.5) = 337
C11_Witness ==
    /\ state.level = 4 /\ state.xp_to_level = 337
    /\ state.max_hp = 130 /\ state.hp = 130
    /\ state.attack = 16 /\ state.defense = 8

\* C12, as the specification states it: in every reachable progress state
\* level >= 1 and 0 <= xp < xp_to_level, whatever the xp rewards of the
\* enemies beaten.  add_xp tests the threshold once per call, so a reward
\* that spans two thresholds leaves xp at or above xp_to_level.
C12_XpBelowThreshold ==
    /\ state.level >= 1
    /\ 0 <= state.xp
    /\ state.xp < state.xp_to_level

(***************************************************************************)
(* Exploring with items once the forest is cleared                         *)
(***************************************************************************)

\* the progress state of a new game after: go north, beat the goblin in two
\* attacks (level 2), attack the troll, take its one hit, beat it
AfterForest ==
    LET s1 == DoLook([NewGameState("Hero") EXCEPT !.current_room = "forest"])
        s2 == VictoryState(s1, EnemyDefs["goblin"])
        s3 == TakeDamage(s2, EnemyDefs["troll"].attack)
    IN VictoryState(s3, EnemyDefs["troll"])

\* CombatScene.update has returned "explore" after the troll's defeat
ItemInit ==
    /\ state = AfterForest
    /\ save_file = <<>>
    /\ room_items = [r \in RoomIds |-> RoomDefs[r].items]
    /\ current = "explore"
    /\ running = TRUE
    /\ pending_enemy_id = NoneVal
    /\ looked = TRUE
    /\ eof = FALSE
    /\ templates = EnemyDefs
    /\ invalid_choices = 0
    /\ handlers = NoHandlers
    /\ invoked = <<>>
    /\ published = NoEvents
    /\ bpc = "idle"
    /\ enemy = NoEnemy
    /\ defending = FALSE
    /\ turn_count = 0
    /\ result = NoResult
    /\ round = NoRound
    /\ last_damage = NoDamage
    /\ entered = "explore"

\* directions typed in this part of the world
ItemMoveInputs == {"north", "south", "east", ""}

\* sessions of moving, looking and handling items; nothing is saved
ItemNext ==
    \/ CmdLook
    \/ \E direction \in ItemMoveInputs : CmdMove(direction)
    \/ \E target \in Targets : CmdTake(target)
    \/ \E target \in Targets : CmdDrop(target)
    \/ \E target \in Targets : CmdEquip(target)
    \/ \E target \in SlotInputs : CmdUnequip(target)
    \/ \E target \in Targets : CmdUse(target)
    \/ CmdAttack
    \/ CombatUpdate

ItemSpec == ItemInit /\ [][ItemNext]_vars

\* the state ItemInit starts from is a state of a session
AfterForestReached ==
    /\ state = AfterForest /\ current = "explore" /\ bpc = "idle"
    /\ looked /\ entered = "explore"

\* C13: in every reachable state the player's hp lies in 0 .. max_hp and
\* the enemy instance's hp lies in 0 .. its max_hp.
C13_HpInRange ==
    /\ 0 <= state.hp /\ state.hp <= state.max_hp
    /\ 0 <= enemy.hp /\ enemy.hp <= enemy.max_hp

\* after a level-up the player has been hit and has brought the troll to 0
\* with a blow worth more than the troll's hp
C13_Witness ==
    /\ InBattle /\ state.level = 2
    /\ 0 < state.hp /\ state.hp < state.max_hp
    /\ last_damage.target = "enemy"
    /\ last_damage.actual > last_damage.before
    /\ enemy.hp = 0

\* C14, as the specification states it: each equipment slot is empty or
\* holds an item id that is in the inventory.  _cmd_drop removes the item
\* from the inventory and leaves the slot as it is.
C14_EquippedInInventory ==
    /\ state.equipped_weapon = NoneVal
         \/ SeqContains(state.inventory, state.equipped_weapon)
    /\ state.equipped_armor = NoneVal
         \/ SeqContains(state.inventory, state.equipped_armor)

(***************************************************************************)
(* Sessions with saving and loading, without items                         *)
(***************************************************************************)

\* directions typed in these sessions
SaveMoveInputs == {"north", "south", "down"}

\* new games, moves, fights, deaths, saves and loads
SaveNext ==
    \/ \E name \in PlayerNames : TitleNewGame(name)
    \/ TitleLoadGame
    \/ DeathLoad
    \/ DeathNewGame
    \/ ExploreRoomMissing
    \/ \E direction \in SaveMoveInputs : CmdMove(direction)
    \/ CmdAttack
    \/ CmdSave
    \/ CmdLoad
    \/ CombatUpdate
    \/ BattleInternal
    \/ PlayerAttack
    \/ PlayerDefend
    \/ \E r \in RandomValues : PlayerFlee(r)

SaveSpec == Init /\ [][SaveNext]_vars

\* every enemy id the progress state lists as defeated is still listed
\* after the step
DefeatedKept ==
    \A i \in 1 .. Len(state.defeated_enemies) :
        \E j \in 1 .. Len(state'.defeated_enemies) :
            state'.defeated_enemies[j] = state.defeated_enemies[i]

\* the step replaces the progress state: a new game or a load from the
\* title or death menu, or a load typed in explore
ProgressReplaced ==
    \/ current \in {"title", "death"} /\ current' = "explore"
    \/ /\ current = "explore" /\ save_file # <<>>
       /\ state'.defeated_enemies = LoadFile(save_file).defeated_enemies

\* no battle runs against an enemy the progress state lists as defeated,
\* and no id is listed twice
NoRematch ==
    /\ InBattle =>
          \A i \in 1 .. Len(state.defeated_enemies) :
              state.defeated_enemies[i] # enemy.enemy_id
    /\ \A i, j \in 1 .. Len(state.defeated_enemies) :
          state.defeated_enemies[i] = state.defeated_enemies[j] => i = j

\* C15, as the specification states it: once a victory has added an enemy
\* id to defeated_enemies it stays excluded for the rest of the session,
\* whatever commands follow, and no later battle against it starts.
C15_DefeatedForSession ==
    /\ []NoRematch
    /\ [][DefeatedKept]_vars

\* C15, amended: within one progress state, until a new game or a load
\* replaces it, an enemy id that a victory has added to defeated_enemies
\* stays there, is never fought again and is never added twice.
C15_DefeatedUntilReplaced ==
    /\ []NoRematch
    /\ [][ProgressReplaced \/ DefeatedKept]_vars

\* the goblin is beaten and the fight the player starts next is the troll's
C15_Witness ==
    /\ InBattle /\ enemy.enemy_id = "troll"
    /\ state.defeated_enemies = <<"goblin">>
    /\ save_file # <<>>

\* the mode changes of the transition table
ModeChanges ==
    { <<"title", "explore">>, <<"explore", "combat">>,
      <<"combat", "explore">>, <<"combat", "death">>,
      <<"death", "explore">>, <<"death", "title">> }

\* C16, as the specification states it: every change of the active mode is
\* one of title->explore, explore->combat, combat->explore, combat->death,
\* death->explore, death->title.
C16_ModeChangesListed ==
    [][current' # current => <<current, current'>> \in ModeChanges]_vars

\* C16, amended: every change of the active mode is one of those six or
\* explore->title, which is taken when the current room is missing from
\* the world map.
C16_ModeChangesOrLostRoom ==
    [][current' # current =>
         \/ <<current, current'>> \in ModeChanges
         \/ /\ current = "explore" /\ current' = "title"
            /\ state.current_room \notin DOMAIN RoomDefs]_vars

\* explore has handed over to the title: the exit led to no room
C16_Witness ==
    /\ current = "title" /\ entered = "title"
    /\ state.current_room = "abyss"

\* C17, as the specification states it: combat hands control to explore
\* only after a battle that ended in victory or in a successful flee, and
\* to death exactly when the battle ended in defeat.  After a keyboard
\* interrupt inside the battle the loop calls CombatScene.update again,
\* which finds no pending enemy and returns "explore".
C17_CombatHandsOver ==
    [][(current = "combat" /\ current' # current) =>
         /\ result'.set
         /\ current' = "explore" => (result'.victory \/ result'.fled)
         /\ current' = "death" <=> (~result'.victory /\ ~result'.fled)]_vars

\* the indices of the current room's enemy list whose id is not defeated
Undefeated(s) ==
    { i \in 1 .. Len(RoomDefs[s.current_room].enemies) :
        \A j \in 1 .. Len(s.defeated_enemies) :
            s.defeated_enemies[j] # RoomDefs[s.current_room].enemies[i] }

\* the first undefeated enemy of the current room's list
FirstUndefeated(s) ==
    RoomDefs[s.current_room].enemies[
        CHOOSE i \in Undefeated(s) : \A k \in Undefeated(s) : i <= k]

C19_EnterOncePerTransition ==
    /\ (current = "title" /\ entered = "title")
    /\ [][eof' = eof =>
            entered' = IF current' # current THEN current' ELSE "none"]_vars

\* explore has been entered again after a battle was won
C19_Witness ==
    /\ current = "explore" /\ entered = "explore"
    /\ result.set /\ result.victory

\* C20: a keyboard interrupt during update() is swallowed: the loop goes
\* on and the active mode is the one it was.
C20_InterruptSwallowed ==
    [][Interrupt => (running' /\ current' = current)]_vars

\* a battle was interrupted: the loop is still in combat, with no battle
C20_Witness ==
    /\ running /\ current = "combat" /\ bpc = "idle"
    /\ pending_enemy_id = NoneVal /\ entered = "none"

(***************************************************************************)
(* Sessions without keyboard interrupts, run to the end of the input       *)
(***************************************************************************)

\* GameLoop.run with no KeyboardInterrupt raised
EofNext ==
    \/ \E name \in PlayerNames : TitleNewGame(name)
    \/ TitleLoadGame
    \/ TitleQuit
    \/ TitleInvalid
    \/ DeathLoad
    \/ DeathNewGame
    \/ DeathQuit
    \/ DeathInvalid
    \/ ExploreRoomMissing
    \/ ExploreEOF
    \/ \E raw \in {"", "dance"} : ExploreOther(raw)
    \/ CmdLook
    \/ \E verb \in DisplayVerbs : CmdDisplay(verb)
    \/ \E direction \in MoveInputs : CmdMove(direction)
    \/ \E target \in Targets : CmdTake(target)
    \/ \E target \in Targets : CmdEquip(target)
    \/ \E target \in SlotInputs : CmdUnequip(target)
    \/ \E target \in Targets : CmdUse(target)
    \/ CmdAttack
    \/ CmdLoad
    \/ CmdQuit
    \/ CombatUpdate
    \/ InputEnds
    \/ BattleInternal
    \/ TurnCompletes
    \/ TurnReprompts

\* at end-of-input choice_menu returns -1 at once
MenuEOF == eof /\ (TitleInvalid \/ DeathInvalid)

\* GameLoop.run is sequential code: an update() that reads nothing, or that
\* reads at end-of-input, returns at once
EofSpec ==
    /\ Init /\ [][EofNext]_vars
    /\ WF_vars(BattleInternal)
    /\ WF_vars(ItemPromptEOF)
    /\ WF_vars(TurnCompletes)
    /\ WF_vars(ExploreEOF)
    /\ WF_vars(MenuEOF)
    /\ WF_vars(ExploreRoomMissing)
    /\ WF_vars(CombatUpdate)

\* C21: once the input stream has reached end-of-input, the scene loop
\* eventually exits, whichever scene is active.
C21_EofExits == eof ~> ~running

\* the scenes whose update() reads through choice_menu
MenuScenes == {"title", "death"}

\* end-of-input reached while the explore or the combat scene is active
\* leads out of the loop or into a menu scene
C21_EofLeavesExploreAndCombat ==
    (eof /\ current \notin MenuScenes) ~> (~running \/ current \in MenuScenes)

(***************************************************************************)
(* The explore commands: exits, equipment, consumables                     *)
(***************************************************************************)

\* the exit a move command names, <<>> when the room has none that way
ExitTaken(direction) == GetExit(ExploreBase.current_room, direction)

\* a move command whose exit is locked and whose required flag is not set
BlockedMove(direction) ==
    /\ CmdMove(direction)
    /\ ExitTaken(direction) # <<>>
    /\ ExitTaken(direction)[1].locked
    /\ ExitTaken(direction)[1].required_flag # NoneVal
    /\ ~HasFlag(ExploreBase, ExitTaken(direction)[1].required_flag)

\* C22: a move through a locked exit whose required flag is not set reports
\* the exit's lock message and leaves current_room, the active scene and
\* every other field of the progress state as they stood at the prompt.
C22_LockedMoveChangesNothing ==
    [][\A direction \in MoveInputs :
          BlockedMove(direction) =>
             /\ MoveReport(ExploreBase, direction)
                   = <<ExitTaken(direction)[1].lock_message>>
             /\ state' = ExploreBase
             /\ state'.current_room = state.current_room
             /\ current' = current
             /\ pending_enemy_id' = pending_enemy_id
             /\ room_items' = room_items /\ save_file' = save_file]_vars

\* the village square with the troll undefeated: the way down is locked
C22_Witness ==
    /\ InScene("explore") /\ state.current_room = "village_square"
    /\ ~HasFlag(state, "defeated_troll")
    /\ ~IsAccessible(GetExit("village_square", "down")[1], state.flags)
    /\ MoveReport(state, "down") = <<"The abyss is sealed.">>
    /\ looked /\ entered = "none"

\* a move command through an exit that declares a required flag
FlaggedMove(direction) ==
    /\ CmdMove(direction)
    /\ ExitTaken(direction) # <<>>
    /\ ExitTaken(direction)[1].required_flag # NoneVal

\* the move went through the exit
Passed(direction) ==
    /\ MoveReport(ExploreBase, direction) = <<>>
    /\ state'.current_room = ExitTaken(direction)[1].target_room

\* Exit.is_accessible on the exits of every room that declare a required
\* flag, under the current flags
LockedExitRule ==
    \A r \in RoomIds :
       \A i \in 1 .. Len(RoomDefs[r].exits) :
          LET ex == RoomDefs[r].exits[i]
          IN ex.required_flag # NoneVal =>
                (IsAccessible(ex, state.flags)
                   <=> (~ex.locked \/ HasFlag(state, ex.required_flag)))

\* C23 as stated: an exit that declares a required flag is passable if and
\* only if that flag is set to true in the progress state's flags.
C23_FlagGatesExit ==
    [][\A direction \in MoveInputs :
          FlaggedMove(direction) =>
             (Passed(direction)
                <=> HasFlag(ExploreBase, ExitTaken(direction)[1].required_flag))]_vars

\* C23: an exit that is marked locked and declares a required flag is
\* passable if and only if that flag is set to true in the progress state's
\* flags; an exit that is not marked locked is passable whatever it declares.
C23_FlagGatesLockedExit ==
    /\ []LockedExitRule
    /\ [][\A direction \in MoveInputs :
          FlaggedMove(direction) =>
             (Passed(direction)
                <=> (~ExitTaken(direction)[1].locked
                     \/ HasFlag(ExploreBase,
                                ExitTaken(direction)[1].required_flag)))]_vars

\* in the abyss: the only way there is the locked exit of the village
\* square, passed with the flag defeated_troll set
C23_Witness ==
    /\ running /\ current = "explore" /\ state.current_room = "abyss"
    /\ GetExit("village_square", "down")[1].locked
    /\ HasFlag(state, GetExit("village_square", "down")[1].required_flag)

\* item ids handed to Player.equip and Player.use_item: the registered ones
\* and one the registry does not know
ItemIdInputs == ItemIds \cup {"relic"}

\* the item is in the inventory and its template has the given type
Owns(s, item_id, type) ==
    /\ SeqContains(s.inventory, item_id)
    /\ HasItemDef(item_id)
    /\ ItemDefs[item_id].item_type = type

\* Player.equip on the current progress state, for every item id
EquipRule ==
    \A item_id \in ItemIdInputs :
       IF Owns(state, item_id, "weapon")
       THEN /\ EquipError(state, item_id) = NoneVal
            /\ Equip(state, item_id) = [state EXCEPT !.equipped_weapon = item_id]
       ELSE IF Owns(state, item_id, "armor")
       THEN /\ EquipError(state, item_id) = NoneVal
            /\ Equip(state, item_id) = [state EXCEPT !.equipped_armor = item_id]
       ELSE /\ EquipError(state, item_id) # NoneVal
            /\ Equip(state, item_id).equipped_weapon = state.equipped_weapon
            /\ Equip(state, item_id).equipped_armor = state.equipped_armor

\* the equip command: a slot changes only to an owned item of the slot's
\* type, the other slot and every other field stay
EquipStep ==
    \A target \in Targets :
       CmdEquip(target) =>
          \/ state' = ExploreBase
          \/ /\ Owns(ExploreBase, state'.equipped_weapon, "weapon")
             /\ state' = [ExploreBase EXCEPT
                             !.equipped_weapon = state'.equipped_weapon]
          \/ /\ Owns(ExploreBase, state'.equipped_armor, "armor")
             /\ state' = [ExploreBase EXCEPT
                             !.equipped_armor = state'.equipped_armor]

\* C24: equipping an item whose type is neither weapon nor armor, or an item
\* id not in the inventory, returns a failure message and leaves both
\* equipped slots unchanged; equipping a weapon or armor that is in the
\* inventory changes only the matching slot.
C24_Equip == []EquipRule /\ [][EquipStep]_vars

\* the sword equipped with a potion in the pack and the armor not owned
C24_Witness ==
    /\ InScene("explore")
    /\ state.equipped_weapon = "sword" /\ state.equipped_armor = NoneVal
    /\ SeqContains(state.inventory, "potion")
    /\ ~SeqContains(state.inventory, "armor")
    /\ EquipError(state, "potion") = "can't be equipped."
    /\ EquipError(state, "armor") = "You don't have that item."

(***************************************************************************)
(* Player.use_item on any small inventory at any hp                        *)
(***************************************************************************)

MaxInventory == 2

\* hp of a level-1 player: near death, wounded, within one potion of full
\* health on either side of it, and full
HpInputs == {1, 40, 80, 81, 90, 100}

RECURSIVE SeqsUpTo(_, _)
SeqsUpTo(S, n) ==
    IF n = 0 THEN {<<>>}
    ELSE SeqsUpTo(S, n - 1)
         \cup {Append(q, x) : q \in {p \in SeqsUpTo(S, n - 1) : Len(p) = n - 1},
                              x \in S}

\* a player in the village square with some items picked up and some
\* wounds taken
UseInit ==
    /\ \E hp \in HpInputs, inv \in SeqsUpTo(ItemIds, MaxInventory) :
          state = [NewGameState("Hero") EXCEPT !.hp = hp, !.inventory = inv]
    /\ save_file = <<>>
    /\ room_items = [r \in RoomIds |-> RoomDefs[r].items]
    /\ current = "explore"
    /\ running = TRUE
    /\ pending_enemy_id = NoneVal
    /\ looked = FALSE
    /\ eof = FALSE
    /\ templates = EnemyDefs
    /\ invalid_choices = 0
    /\ handlers = NoHandlers
    /\ invoked = <<>>
    /\ published = NoEvents
    /\ bpc = "idle"
    /\ enemy = NoEnemy
    /\ defending = FALSE
    /\ turn_count = 0
    /\ result = NoResult
    /\ round = NoRound
    /\ last_damage = NoDamage
    /\ entered = "explore"

UseNext == \E target \in Targets : CmdUse(target)

UseSpec == UseInit /\ [][UseNext]_vars

\* the item a use command picks: the first of the inventory whose name
\* contains the text typed
UsePick(target) == FirstMatch(ExploreBase.inventory, target)

\* the use command goes through: it names an owned consumable
UseGoesThrough(target) ==
    /\ target # "" /\ UsePick(target) # <<>>
    /\ Owns(ExploreBase, UsePick(target)[1], "consumable")

\* the use command, whatever is typed
UseStep ==
    \A target \in Targets :
       CmdUse(target) =>
          IF UseGoesThrough(target)
          THEN LET item_id == UsePick(target)[1]
               IN /\ Len(state'.inventory) = Len(state.inventory) - 1
                  /\ \A other \in ItemIds :
                        SeqCount(state'.inventory, other)
                           = SeqCount(state.inventory, other)
                             - (IF other = item_id THEN 1 ELSE 0)
                  /\ state'.hp = Min(state.hp + ItemDefs[item_id].heal_amount,
                                     state.max_hp)
                  /\ UseItemHealed(state, item_id) = state'.hp - state.hp
          ELSE /\ state'.inventory = state.inventory
               /\ state'.hp = state.hp

\* Player.use_item on the current progress state, for every item id
UseRule ==
    \A item_id \in ItemIdInputs :
       /\ ~Owns(state, item_id, "consumable") =>
             /\ UseItem(state, item_id).inventory = state.inventory
             /\ UseItem(state, item_id).hp = state.hp
       /\ (Owns(state, item_id, "consumable")
           /\ ItemDefs[item_id].heal_amount = 20
           /\ state.hp = 90 /\ state.max_hp = 100) =>
             /\ UseItemHealed(state, item_id) = 10
             /\ UseItem(state, item_id).hp = 100

\* C25: using a consumable that is in the inventory removes exactly one
\* instance of it, sets hp to min(hp + heal_amount, max_hp) and reports
\* hp_after - hp_before as the amount healed (heal 20 at 90/100 heals 10);
\* using an item that is not a consumable or not in the inventory changes
\* neither inventory nor hp.
C25_UseItem == []UseRule /\ [][UseStep]_vars

\* after a use command at less than one potion below full health: hp is
\* at max_hp, one potion is gone and one is left, for which Player.use_item
\* would now report 0 healed
C25_Witness ==
    /\ InScene("explore") /\ looked
    /\ state.hp = state.max_hp /\ state.max_hp = 100
    /\ state.inventory = <<"potion">>
    /\ UseItemHealed(state, "potion") = 0
    /\ UseItem(state, "potion").inventory = <<>>

(***************************************************************************)
(* Saving and loading with items in the pack                               *)
(***************************************************************************)

\* sessions of moving and handling items in which the game is saved and
\* loaded; nothing is dropped
PersistNext ==
    \/ CmdLook
    \/ \E direction \in ItemMoveInputs : CmdMove(direction)
    \/ \E target \in Targets : CmdTake(target)
    \/ \E target \in Targets : CmdEquip(target)
    \/ \E target \in SlotInputs : CmdUnequip(target)
    \/ \E target \in Targets : CmdUse(target)
    \/ CmdAttack
    \/ CombatUpdate
    \/ CmdSave
    \/ CmdLoad

PersistSpec == ItemInit /\ [][PersistNext]_vars

\* to_dict then from_dict, and save then load, of the current progress state
RoundTrip ==
    /\ FromDict(ToDict(state)) = state
    /\ LoadFile(SaveFile(state)) = state

\* the save command: the file written loads back as the state saved
SaveStep == CmdSave => LoadFile(save_file') = state'

\* the load command with a file: the state is the one the file holds, looked
\* at once
LoadStep ==
    (CmdLoad /\ save_file # <<>>) =>
       /\ state' = DoLook(FromDict(JsonLoads(save_file[1])))
       /\ \A k \in (DataclassFields \ {"flags"}) \cap DOMAIN save_file[1] :
             state'[k] = JsonLoadsValue(save_file[1][k])

\* C26: serializing a progress state and deserializing it (to_dict then
\* from_dict, and save then load of the same slot) yields a state equal to
\* the original in every field, for every reachable progress state.
C26_RoundTrip == []RoundTrip /\ [][SaveStep]_vars /\ [][LoadStep]_vars

\* a save written with both slots filled and a potion in the pack, and the
\* progress state loaded back from it
C26_Witness ==
    /\ InScene("explore") /\ save_file # <<>>
    /\ state = LoadFile(save_file)
    /\ state.equipped_weapon = "sword" /\ state.equipped_armor = "armor"
    /\ SeqContains(state.inventory, "potion")
    /\ save_file[1].equipped_armor = [json |-> "string", v |-> "armor"]
    /\ HasFlag(state, "defeated_troll") /\ state.level = 2

(***************************************************************************)
(* Sessions that find a save file of another version on disk               *)
(***************************************************************************)

\* keys of a save file that GameState does not declare
ForeignKeys ==
    [ version |-> [json |-> "number", v |-> 2],
      checksum |-> [json |-> "string", v |-> "9f2c"] ]

\* a save file with the foreign keys added
WithForeignKeys(j) ==
    [k \in DOMAIN j \cup DOMAIN ForeignKeys |->
        IF k \in DOMAIN j THEN j[k] ELSE ForeignKeys[k]]

\* a save file cut down to the keys GameState declares
KnownKeys(j) == [k \in DOMAIN j \cap DataclassFields |-> j[k]]

\* saves/save1.json when the program starts: absent, or written by a
\* version that records more than GameState holds
SavesOnDisk ==
    { <<>>,
      <<WithForeignKeys(JsonDumps(ToDict(NewGameState("Hero"))))>>,
      <<WithForeignKeys(JsonDumps(ToDict(AfterForest)))>> }

LoadInit ==
    /\ state = NewGameState("Hero")
    /\ save_file \in SavesOnDisk
    /\ room_items = [r \in RoomIds |-> RoomDefs[r].items]
    /\ current = "title"
    /\ running = TRUE
    /\ pending_enemy_id = NoneVal
    /\ looked = FALSE
    /\ eof = FALSE
    /\ templates = EnemyDefs
    /\ invalid_choices = 0
    /\ handlers = NoHandlers
    /\ invoked = <<>>
    /\ published = NoEvents
    /\ bpc = "idle"
    /\ enemy = NoEnemy
    /\ defending = FALSE
    /\ turn_count = 0
    /\ result = NoResult
    /\ round = NoRound
    /\ last_damage = NoDamage
    /\ entered = "title"

LoadSpec == LoadInit /\ [][SaveNext]_vars

\* a load from the title menu, the death menu or the explore prompt
LoadCommand == TitleLoadGame \/ DeathLoad \/ CmdLoad

\* a load with no file: not found, and nothing changes
LoadAbsentStep ==
    (LoadCommand /\ save_file = <<>>) =>
       /\ Load(save_file) = <<>>
       /\ state' = state
       /\ current' = current
       /\ save_file' = save_file

\* a load with a file: it succeeds, the state has the declared fields and
\* no other, and it is the state the declared keys of the file hold
LoadPresentStep ==
    (LoadCommand /\ save_file # <<>>) =>
       /\ Load(save_file) # <<>>
       /\ Load(save_file) = Load(<<KnownKeys(save_file[1])>>)
       /\ DOMAIN state' = DataclassFields
       /\ state' = IF current = "explore"
                   THEN DoLook(Load(<<KnownKeys(save_file[1])>>)[1])
                   ELSE Load(<<KnownKeys(save_file[1])>>)[1]
       /\ current' = "explore"

\* C27: loading a slot whose save file is absent yields the not-found
\* outcome and leaves the progress state and the active scene unchanged, in
\* title, explore and death; loading a record that carries unknown extra
\* keys ignores those keys and succeeds.
C27_LoadFailsSoft == [][LoadAbsentStep]_vars /\ [][LoadPresentStep]_vars

\* the state a file with foreign keys holds, loaded in explore: the file is
\* still the foreign one, and its declared keys give the progress state
C27_Witness ==
    /\ InScene("explore") /\ save_file # <<>>
    /\ DOMAIN ForeignKeys \subseteq DOMAIN save_file[1]
    /\ state = DoLook(LoadFile(save_file))
    /\ state.level = 2 /\ looked /\ entered \in {"explore", "none"}

(***************************************************************************)
(* The player's turn: lines that re-prompt                                 *)
(***************************************************************************)

\* the prompts of _player_turn and of _do_use_item
AtBattlePrompt == bpc \in {"prompt", "item"}

\* a line that re-prompts leaves the battle where it was
RepromptStep ==
    TurnReprompts =>
       /\ turn_count' = turn_count
       /\ state' = state
       /\ enemy' = enemy
       /\ defending' = defending
       /\ round' = round
       /\ result' = result
       /\ AtBattlePrompt'

\* the enemy's turn follows a legal action that completed in this round
EnemyAfterLegalAction ==
    EnemyTurn =>
       /\ round.player_turns = 1
       /\ round.action \in {"attack", "defend", "item", "flee_fail"}

\* C28: in a player turn, any input that is not one of the four legal
\* actions, a Use-item choice with no consumables in inventory, and a
\* cancelled or out-of-range item selection each re-prompt without consuming
\* the turn: turn_count, both combatants' hp, the inventory and the defending
\* flag are unchanged and no enemy turn runs until a legal action completes.
C28_RepromptKeepsTurn ==
    [][RepromptStep]_vars /\ [][EnemyAfterLegalAction]_vars

\* the item list is on screen in a later round with a potion to pick, and
\* the round has seen no turn yet
C28_Witness ==
    /\ running /\ bpc = "item" /\ turn_count >= 2
    /\ ConsumableOptions(state.inventory, <<>>) = <<"potion">>
    /\ round = NoRound /\ ~defending
    /\ state.hp > 0 /\ enemy.hp > 0

(***************************************************************************)
(* Enemy instances and enemy templates                                     *)
(***************************************************************************)

\* CombatScene.update spawns an enemy and hands it to a Battle
BattleStarts == CombatUpdate /\ bpc' = "loop"

\* the spawned instance is the template at its full hp
FreshEnemyStep ==
    BattleStarts =>
       /\ enemy'.enemy_id = pending_enemy_id
       /\ enemy'.hp = EnemyDefs[pending_enemy_id].max_hp
       /\ enemy'.max_hp = EnemyDefs[pending_enemy_id].max_hp
       /\ enemy' = EnemyDefs[pending_enemy_id]

\* the registry holds the templates as they were loaded
TemplatesKept == templates = EnemyDefs

\* C29: every battle starts with a fresh enemy instance whose hp equals the
\* template's max hp, whatever damage was dealt to that enemy id in earlier
\* battles that ended in flee or defeat; the registry's enemy templates are
\* never modified by any battle.
C29_FreshEnemy == []TemplatesKept /\ [][FreshEnemyStep]_vars

\* a second battle against the goblin starts: the player still carries the
\* wounds of the first, which ended in flee, and the goblin is at full hp
C29_Witness ==
    /\ running /\ bpc = "loop" /\ turn_count = 0
    /\ enemy.enemy_id = "goblin" /\ enemy.hp = enemy.max_hp
    /\ enemy.hp = templates["goblin"].max_hp
    /\ state.hp < state.max_hp
    /\ ~SeqContains(state.defeated_enemies, "goblin")

(***************************************************************************)
(* The explore scene in a room the world map does not hold                 *)
(***************************************************************************)

\* the explore scene is about to update and current_room is in no room file
LostRoom == InScene("explore") /\ ~HasRoom(state.current_room)

\* the explore update in a lost room: the loop goes on in the title scene,
\* whether or not input is left to read, and nothing else is written
LostRoomStep ==
    LostRoom =>
       \/ InputEnds
       \/ /\ current' = "title" /\ entered' = "title"
          /\ running' /\ eof' = eof
          /\ state' = state
          /\ pending_enemy_id' = pending_enemy_id
          /\ save_file' = save_file /\ room_items' = room_items

\* C30: if the progress state's current_room is not in the room registry,
\* the next explore update transitions to title without reading input and
\* without changing the progress state.
C30_LostRoomToTitle == [][LostRoomStep]_vars

\* the title scene entered from the abyss after the input had ended
C30_Witness ==
    /\ running /\ current = "title" /\ entered = "title"
    /\ ~HasRoom(state.current_room)
    /\ eof /\ HasFlag(state, "defeated_troll")

(***************************************************************************)
(* The event bus with subscribers                                          *)
(***************************************************************************)

MaxHandlers == 2

\* the event names the callers of this part subscribe to
BusEvents == {"battle_start", "battle_flee"}

BusSubscribe(event, handler) ==
    /\ Len(handlers[event]) < MaxHandlers
    /\ handlers' = Subscribe(handlers, event, handler)
    /\ UNCHANGED <<state, save_file, room_items, current, running,
                   pending_enemy_id, looked, eof, bpc, enemy, defending,
                   turn_count, result, round, last_damage, entered,
                   templates, invalid_choices, invoked, published>>

BusUnsubscribe(event, handler) ==
    /\ handlers' = Unsubscribe(handlers, event, handler)
    /\ UNCHANGED <<state, save_file, room_items, current, running,
                   pending_enemy_id, looked, eof, bpc, enemy, defending,
                   turn_count, result, round, last_damage, entered,
                   templates, invalid_choices, invoked, published>>

BusPublish(event) ==
    /\ handlers' = Dispatch(handlers, event, 1, <<>>).handlers
    /\ invoked' = Dispatch(handlers, event, 1, <<>>).invoked
    /\ UNCHANGED <<state, save_file, room_items, current, running,
                   pending_enemy_id, looked, eof, bpc, enemy, defending,
                   turn_count, result, round, last_damage, entered,
                   templates, invalid_choices, published>>

BusNext ==
    \E event \in BusEvents :
       \/ \E handler \in HandlerIds : BusSubscribe(event, handler)
       \/ \E handler \in HandlerIds : BusUnsubscribe(event, handler)
       \/ BusPublish(event)

BusSpec == Init /\ [][BusNext]_vars

\* C31: publishing an event invokes every handler currently subscribed to
\* that event name, synchronously and in registration order, and invokes no
\* handler subscribed to a different event name or already unsubscribed.
C31_PublishInvokesSubscribers ==
    [][\A event \in BusEvents :
          BusPublish(event) => invoked' = handlers[event]]_vars

(***************************************************************************)
(* What a progress state keeps: flags, gold                                *)
(***************************************************************************)

\* the step puts another progress state in place: a new game or a load
NewProgress ==
    \/ \E name \in PlayerNames : TitleNewGame(name)
    \/ LoadCommand /\ save_file # <<>>

\* every flag that is true stays true over the step
FlagsKept ==
    \A f \in DOMAIN state.flags :
       state.flags[f] => (f \in DOMAIN state'.flags /\ state'.flags[f])

\* C32: a flag that has become true in a progress state is never set back
\* to false by any game operation on that progress state (movement, look,
\* combat, item commands).
C32_FlagsOneWay ==
    /\ [][NewProgress \/ FlagsKept]_vars
    /\ [](\A f \in DOMAIN state.flags : state.flags[f])

\* the forest has been seen and cleared, a potion was used on the way, and
\* the player has looked again in the forest since
C32_Witness ==
    /\ InScene("explore") /\ state.current_room = "forest" /\ looked
    /\ HasFlag(state, "seen_forest") /\ HasFlag(state, "defeated_goblin")
    /\ HasFlag(state, "defeated_troll")
    /\ state.equipped_weapon = "sword"
    /\ entered = "none"

\* gold stays, or a victory has added the enemy's gold reward to it
GoldStep ==
    \/ state'.gold = state.gold
    \/ /\ BattleVictory
       /\ state'.gold = state.gold + enemy.gold_reward
       /\ state'.gold > state.gold
       /\ result'.victory /\ result'.gold = enemy.gold_reward

\* C33: gold is never negative and never decreases under any game operation
\* on the same progress state; it changes only by a victory's gold reward.
C33_GoldMonotone ==
    /\ [](state.gold >= 0)
    /\ [][NewProgress \/ GoldStep]_vars

\* both enemies of the forest are beaten and both rewards are in the purse
C33_Witness ==
    /\ running /\ result.set /\ result.victory /\ result.gold = 7
    /\ state.gold = EnemyDefs["goblin"].gold_reward + EnemyDefs["troll"].gold_reward
    /\ state.defeated_enemies = <<"goblin", "troll">>

\* C34: the value GameState.take_damage returns, which the enemy_attack event
\* and the damage message report, equals the amount by which the player's hp
\* went down.  take_damage returns max(1, amount - defense) whatever hp was
\* left, while hp stops at 0: a killing blow reports more than was lost.
C34_ReturnIsHpLost ==
    last_damage.target = "player" =>
        last_damage.actual = last_damage.before - last_damage.after

\* C35: whenever the active mode is explore the player is alive.  An
\* interrupt that arrives while Battle.run stands between the fatal blow and
\* _defeat drops the battle; CombatScene.update is called again with no
\* pending enemy and hands over to explore with the player at 0 hp.
C35_ExploreAlive == (running /\ current = "explore") => state.hp > 0

(***************************************************************************)
(* Items across take, drop, use, save, load and new game                   *)
(***************************************************************************)

\* the longest item list a room is let grow to
MaxRoomItems == 3

\* take, while the inventory has room
DupTake(target) ==
    /\ Len(state.inventory) < MaxInventory
    /\ CmdTake(target)

\* drop, while the room's item list has room
DupDrop(target) ==
    /\ HasRoom(state.current_room)
    /\ Len(room_items[state.current_room]) < MaxRoomItems
    /\ CmdDrop(target)

\* a session in the village square: new game or load at the title menu,
\* then take, drop, use, save and load
DupNext ==
    \/ \E name \in PlayerNames : TitleNewGame(name)
    \/ TitleLoadGame
    \/ \E target \in Targets : DupTake(target)
    \/ \E target \in Targets : DupDrop(target)
    \/ \E target \in Targets : CmdUse(target)
    \/ CmdSave
    \/ CmdLoad

DupSpec == Init /\ [][DupNext]_vars

\* the places (room, position) where an item id lies in the rooms' lists
PlacesOf(items_by_room, item_id) ==
    UNION { { <<r, i>> : i \in { j \in DOMAIN items_by_room[r] :
                                    items_by_room[r][j] = item_id } } :
            r \in RoomIds }

\* the instances of an item id in the world and in the inventory
Instances(item_id) ==
    Cardinality(PlacesOf(room_items, item_id))
    + Cardinality({ i \in DOMAIN state.inventory :
                       state.inventory[i] = item_id })

\* the instances the world data places in the rooms
Placed(item_id) ==
    Cardinality(PlacesOf([r \in RoomIds |-> RoomDefs[r].items], item_id))

\* C36: items are never duplicated.  For every item id the instances in the
\* rooms plus those in the inventory never exceed the number the world
\* placed.  A load restores the saved inventory and leaves the rooms as they
\* are: what was dropped after the save is then there twice.
C36_NoDuplication == \A item_id \in ItemIds : Instances(item_id) <= Placed(item_id)

(***************************************************************************)
(* Fleeing                                                                 *)
(***************************************************************************)

\* the step is a flee attempt that succeeds
FleeSuccess == \E r \in RandomValues : PlayerFlee(r) /\ FleeSucceeds(r, turn_count)

\* what a successful flee leaves: the progress state as it stood at the
\* attempt (hp lost and items consumed in the battle included), the player
\* in explore, the enemy among the living of the room
FleeFrame ==
    /\ \A k \in {"gold", "xp", "level", "flags", "defeated_enemies",
                 "inventory", "current_room", "hp", "max_hp"} :
          state'[k] = state[k]
    /\ current' = "explore"
    /\ result'.fled /\ ~result'.victory /\ result'.xp = 0 /\ result'.gold = 0
    /\ HasRoom(state'.current_room)
    /\ SeqContains(AliveEnemies(state'), enemy.enemy_id)

\* C37: a successful flee leaves gold, xp, level, flags, defeated_enemies,
\* inventory and current_room as they stood at the flee attempt; the hp lost
\* and the items consumed in the battle persist, and the fled enemy is still
\* listed as alive in the room the player stands in.
C37_FleeFrame == [][FleeSuccess => FleeFrame]_vars

\* the player has fled from the goblin, wounded and the potion drunk
C37_Witness ==
    /\ running /\ current = "explore" /\ bpc = "idle"
    /\ result.set /\ result.fled /\ round.action = "flee_ok"
    /\ state.hp < state.max_hp
    /\ state.inventory = <<"sword">>
    /\ room_items["village_square"] = <<>>
    /\ AliveEnemies(state)[1] = "goblin"

\* the turn from which chance = 0.5 + turn_count * 0.05 reaches 1.0
SureFleeTurn == 10

\* a battle in which every line read is "4", as at end-of-input
FleeOnlyNext ==
    \/ BattleInternal
    \/ \E r \in RandomValues : PlayerFlee(r)

FleeOnlySpec == BattleInit /\ [][FleeOnlyNext]_vars

\* a flee attempt from the 10th turn on ends the battle with fled
SureFlee ==
    \A r \in RandomValues :
        (PlayerFlee(r) /\ turn_count >= SureFleeTurn) =>
            /\ FleeSucceeds(r, turn_count)
            /\ bpc' = "idle" /\ result'.set /\ result'.fled
            /\ current' = "explore"

\* C38: from the 10th player turn of a battle on, a flee attempt never
\* fails; a player who only chooses Flee has left the battle after at most
\* 10 player turns, unless defeated earlier.
C38_FleeByTenthTurn ==
    /\ [][SureFlee]_vars
    /\ [](turn_count <= SureFleeTurn)
    /\ [](\A r \in RandomValues : \A tc \in SureFleeTurn .. SureFleeTurn + 10 :
             FleeSucceeds(r, tc))

\* nine attempts have failed, the player has lived through nine blows, and
\* the tenth attempt has ended the battle
C38_Witness ==
    /\ bpc = "idle" /\ result.set /\ result.fled
    /\ turn_count = SureFleeTurn
    /\ state.hp >= 1 /\ state.hp <= MaxPlayerHp - (SureFleeTurn - 1)
    /\ last_damage.target = "player"

(***************************************************************************)
(* The events of a battle                                                  *)
(***************************************************************************)

\* the end event that goes with a result
EndEventOf(r) ==
    IF r.victory THEN "battle_victory"
    ELSE IF r.fled THEN "battle_flee"
    ELSE "battle_defeat"

\* C39: every battle that runs to completion publishes battle_start exactly
\* once, before any player_attack or enemy_attack, and exactly one of
\* battle_victory, battle_defeat and battle_flee, as its last event and
\* matching the result returned.  While the battle runs, battle_start has
\* been published once and no end event yet.
C39_BattleEvents ==
    /\ InBattle =>
          /\ published.starts = 1 /\ ~published.early
          /\ published.ends = <<>> /\ ~published.late
    /\ result.set =>
          /\ published.starts = 1 /\ ~published.early
          /\ published.ends = <<EndEventOf(result)>>
          /\ ~published.late

\* a battle of two rounds, with attacks on both sides, has ended in victory
C39_Witness ==
    /\ ~InBattle /\ result.set /\ result.victory
    /\ turn_count = 2 /\ last_damage.target = "enemy"
    /\ state.hp < state.max_hp \/ state.level > 1
    /\ published = [starts |-> 1, ends |-> <<"battle_victory">>,
                    early |-> FALSE, late |-> FALSE]

(***************************************************************************)
(* The three outcomes                                                      *)
(***************************************************************************)

\* the outcomes a result stands for
Outcomes(r) ==
    { o \in {"victory", "fled", "defeat"} :
        \/ o = "victory" /\ r.victory
        \/ o = "fled" /\ r.fled
        \/ o = "defeat" /\ ~r.victory /\ ~r.fled }

\* Battle.run returns with this step
BattleReturns == ~result.set /\ result'.set

\* Battle.run has been entered with the player at 0 hp
EnteredDead == bpc = "loop" /\ turn_count = 0 /\ state.hp = 0

\* C40: the three battle outcomes are mutually exclusive; a victory is
\* returned only when the enemy's hp is 0 and the player's hp is above 0; a
\* battle entered with the player already at 0 hp returns defeat without
\* any turn being played.
C40_Outcomes ==
    /\ [](result.set => Cardinality(Outcomes(result)) = 1)
    /\ [][(BattleReturns /\ result'.victory) =>
             (enemy.hp = 0 /\ state.hp > 0)]_vars
    /\ [][EnteredDead =>
             /\ BattleReturns /\ Outcomes(result') = {"defeat"}
             /\ turn_count' = 0 /\ round' = NoRound
             /\ last_damage' = NoDamage
             /\ state' = state /\ enemy' = enemy]_vars

\* a battle entered at 0 hp against an enemy that is itself at 0 hp has
\* returned defeat, no turn played
C40_Witness ==
    /\ ~InBattle /\ result.set /\ Outcomes(result) = {"defeat"}
    /\ turn_count = 0 /\ round = NoRound
    /\ state.hp = 0 /\ enemy.hp = 0

=============================================================================
